---- MODULE Spec2Model ----
(***************************************************************************)
(* Model of the pine_voice client library: the wire mapper                 *)
(* (_base_client.py), the error classifier (exceptions.py), the dataclass  *)
(* result types (types.py) and the create_and_wait completion waiter       *)
(* (calls.py: stream path with one reconnect, then polling fallback).      *)
(*                                                                         *)
(* Python values are represented as follows.                               *)
(*   - Optional[T]: None is <<>>, a present value v is <<v>>.              *)
(*   - dict: a function from a set of key strings to values.               *)
(*   - dataclass instance: a record with a "cls" field and its fields.     *)
(*   - the result of running a function: [kind |-> "return", value |-> v]  *)
(*     or [kind |-> "raise", exc |-> e].                                   *)
(*   - a text line of the event stream: a sequence of characters; a JSON   *)
(*     document inside a data line is one token of that sequence.          *)
(***************************************************************************)
EXTENDS Integers, Sequences, FiniteSets, TLC

(***************************************************************************)
(* Bounds of the model.                                                    *)
(***************************************************************************)
MaxPolls == 3        \* status fetches per wait explored
MaxEvents == 2       \* complete events read per stream connection explored
MaxEventLines == 2   \* non-blank lines per event explored
MaxStreamLines == 4  \* lines per response, blank ones included, read line by line
MaxReadLines == 5    \* lines per response, blank ones included, read as a whole

(***************************************************************************)
(* Python helpers.                                                         *)
(***************************************************************************)
None == <<>>
Some(v) == <<v>>
EmptyDict == [k \in {} |-> 0]

Has(d, k) == k \in DOMAIN d
DictGet(d, k, default) == IF k \in DOMAIN d THEN d[k] ELSE default

\* Truthiness of an Optional[dict]: None and {} are falsy.
Falsy(data) == data = None \/ DOMAIN data[1] = {}

Return(v) == [kind |-> "return", value |-> v]
Raise(e) == [kind |-> "raise", exc |-> e]

\* Exceptions that are not part of the SDK hierarchy carry only their type.
BuiltinExc(type) == [type |-> type]

(***************************************************************************)
(* exceptions.py                                                           *)
(***************************************************************************)
PineVoiceError(code, message, status) ==
    [type |-> "PineVoiceError", code |-> code, message |-> message, status |-> status]

AuthError(code, message, status) ==
    [type |-> "AuthError", code |-> code, message |-> message, status |-> status]

\* Variant: the constructor does not force the status and leaves the base
\* class default.
RateLimitError_DefaultStatus(code, message) ==
    [type |-> "RateLimitError", code |-> code, message |-> message, status |-> 0]

RateLimitError(code, message) ==
    [type |-> "RateLimitError", code |-> code, message |-> message, status |-> 429]

CallError(code, message, status) ==
    [type |-> "CallError", code |-> code, message |-> message, status |-> status]

_CALL_ERROR_CODES ==
    {"INVALID_PHONE", "DND_BLOCKED", "POLICY_VIOLATION", "INSUFFICIENT_DETAIL",
     "SUBSCRIPTION_REQUIRED", "INSUFFICIENT_CREDITS", "ACCESS_DENIED", "NOT_FOUND"}

\* Variant: the rate-limit rule is tried before the authentication rule.
raise_api_error_RateLimitFirst(http_status, body) ==
    LET error == DictGet(IF Falsy(body) THEN EmptyDict ELSE body[1], "error", EmptyDict)
        code == DictGet(error, "code", "UNKNOWN")
        message == DictGet(error, "message", "HTTP " \o ToString(http_status))
    IN  IF http_status = 429 \/ code = "RATE_LIMITED"
        THEN Raise(RateLimitError(code, message))
        ELSE IF http_status = 401 \/ code \in {"TOKEN_EXPIRED", "AUTH_REQUIRED"}
        THEN Raise(AuthError(code, message, http_status))
        ELSE IF code \in _CALL_ERROR_CODES
        THEN Raise(CallError(code, message, http_status))
        ELSE Raise(PineVoiceError(code, message, http_status))

\* Always raises: the value is the exception raised.
raise_api_error(http_status, body) ==
    LET error == DictGet(IF Falsy(body) THEN EmptyDict ELSE body[1], "error", EmptyDict)
        code == DictGet(error, "code", "UNKNOWN")
        message == DictGet(error, "message", "HTTP " \o ToString(http_status))
    IN  IF http_status = 401 \/ code \in {"TOKEN_EXPIRED", "AUTH_REQUIRED"}
        THEN Raise(AuthError(code, message, http_status))
        ELSE IF http_status = 429 \/ code = "RATE_LIMITED"
        THEN Raise(RateLimitError(code, message))
        ELSE IF code \in _CALL_ERROR_CODES
        THEN Raise(CallError(code, message, http_status))
        ELSE Raise(PineVoiceError(code, message, http_status))

(***************************************************************************)
(* types.py: the dataclasses, their fields and their defaults.             *)
(***************************************************************************)
CallInitiatedFields == {"call_id", "status"}
CallInitiatedDefaults == EmptyDict

TranscriptEntryFields == {"speaker", "text"}
TranscriptEntryDefaults == EmptyDict

CallStatusFields == {"call_id", "status", "duration_seconds", "phase", "partial_transcript"}
CallStatusDefaults ==
    [duration_seconds |-> None, phase |-> None, partial_transcript |-> None]

CallProgressFields == {"call_id", "status", "phase", "duration_seconds", "partial_transcript"}
CallProgressDefaults ==
    [phase |-> None, duration_seconds |-> None, partial_transcript |-> None]

CallResultFields ==
    {"call_id", "status", "duration_seconds", "summary", "transcript", "credits_charged"}
CallResultDefaults ==
    [duration_seconds |-> 0, summary |-> "", transcript |-> <<>>, credits_charged |-> 0]

\* The generated dataclass __init__: a keyword that is not a field, or a
\* field without default that is not given, is a TypeError.
NewDataclass(cls, fields, defaults, kwargs) ==
    IF /\ DOMAIN kwargs \subseteq fields
       /\ fields \subseteq (DOMAIN kwargs \cup DOMAIN defaults)
    THEN Return([cls |-> cls] @@ kwargs @@ defaults)
    ELSE Raise(BuiltinExc("TypeError"))

(***************************************************************************)
(* _base_client.py                                                         *)
(***************************************************************************)
\* Variant: in_progress is taken for a terminal status.
TERMINAL_STATUSES_WithInProgress == {"completed", "failed", "cancelled", "in_progress"}

TERMINAL_STATUSES == {"completed", "failed", "cancelled"}

EMPTY_RESPONSE ==
    PineVoiceError("EMPTY_RESPONSE", "Server returned an empty or invalid response", 200)

parse_call_initiated(data) ==
    IF Falsy(data) \/ ~Has(data[1], "call_id")
    THEN Raise(EMPTY_RESPONSE)
    ELSE NewDataclass("CallInitiated", CallInitiatedFields, CallInitiatedDefaults,
                      [call_id |-> data[1]["call_id"], status |-> "in_progress"])

\* The list comprehension over the raw transcript.
TranscriptEntries(transcript_raw) ==
    [i \in 1..Len(transcript_raw) |->
        NewDataclass("TranscriptEntry", TranscriptEntryFields, TranscriptEntryDefaults,
                     [speaker |-> DictGet(transcript_raw[i], "speaker", ""),
                      text |-> DictGet(transcript_raw[i], "text", "")]).value]

parse_call_response(data) ==
    IF Falsy(data)
    THEN Raise(EMPTY_RESPONSE)
    ELSE LET d == data[1]
             status == DictGet(d, "status", "")
         IN  IF status \in TERMINAL_STATUSES
             THEN NewDataclass("CallResult", CallResultFields, CallResultDefaults,
                      [call_id |-> DictGet(d, "call_id", ""),
                       status |-> status,
                       duration_seconds |-> DictGet(d, "duration_seconds", 0),
                       summary |-> DictGet(d, "summary", ""),
                       transcript |-> TranscriptEntries(DictGet(d, "transcript", <<>>)),
                       triage_category |-> DictGet(d, "triage_category", ""),
                       credits_charged |-> DictGet(d, "credits_charged", 0)])
             ELSE NewDataclass("CallStatus", CallStatusFields, CallStatusDefaults,
                      [call_id |-> DictGet(d, "call_id", ""),
                       status |-> status,
                       duration_seconds |->
                           IF Has(d, "duration_seconds") THEN Some(d["duration_seconds"]) ELSE None])

check_response(status_code, data) ==
    IF status_code >= 400 THEN raise_api_error(status_code, data) ELSE Return(None)


(***************************************************************************)
(* calls.py: constants.                                                    *)
(***************************************************************************)
DEFAULT_POLL_INTERVAL == 10
_MAX_SSE_RECONNECTS == 1

(***************************************************************************)
(* String operations on lines (sequences of characters).                   *)
(***************************************************************************)
\* The characters str.strip() removes: every character for which
\* str.isspace() holds.  A character that a TLA+ string cannot hold is
\* written as its Python escape.
Whitespace ==
    { " ", "\t", "\n", "\r", "\f", "\\x0b", "\\x1c", "\\x1d", "\\x1e", "\\x1f",
      "\\x85", "\\xa0", "\\u1680", "\\u2000", "\\u2001", "\\u2002", "\\u2003",
      "\\u2004", "\\u2005", "\\u2006", "\\u2007", "\\u2008", "\\u2009", "\\u200a",
      "\\u2028", "\\u2029", "\\u202f", "\\u205f", "\\u3000" }

StartsWith(line, prefix) ==
    Len(line) >= Len(prefix) /\ SubSeq(line, 1, Len(prefix)) = prefix

Drop(line, n) == SubSeq(line, n + 1, Len(line))

RECURSIVE LStrip(_)
LStrip(s) == IF s # <<>> /\ Head(s) \in Whitespace THEN LStrip(Tail(s)) ELSE s

RECURSIVE RStrip(_)
RStrip(s) ==
    IF s # <<>> /\ s[Len(s)] \in Whitespace THEN RStrip(SubSeq(s, 1, Len(s) - 1)) ELSE s

Strip(s) == RStrip(LStrip(s))

\* raw_line.rstrip("\r\n")
RECURSIVE RStripLineEnd(_)
RStripLineEnd(s) ==
    IF s # <<>> /\ s[Len(s)] \in {"\r", "\n"}
    THEN RStripLineEnd(SubSeq(s, 1, Len(s) - 1)) ELSE s

\* "\n".join(parts)
RECURSIVE Join(_)
Join(parts) ==
    IF Len(parts) = 0 THEN <<>>
    ELSE IF Len(parts) = 1 THEN parts[1]
    ELSE parts[1] \o <<"\n">> \o Join(Tail(parts))

PrefixId == <<"i", "d", ":">>
PrefixEvent == <<"e", "v", "e", "n", "t", ":">>
PrefixData == <<"d", "a", "t", "a", ":">>

\* The loop of _parse_sse_event over the accumulated lines.
RECURSIVE ParseSseLines(_, _, _)
ParseSseLines(lines, event, data_parts) ==
    IF lines = <<>>
    THEN IF data_parts # <<>> THEN [data |-> Join(data_parts)] @@ event ELSE event
    ELSE LET line == Head(lines)
         IN  IF StartsWith(line, PrefixId)
             THEN ParseSseLines(Tail(lines), [id |-> Strip(Drop(line, 3))] @@ event, data_parts)
             ELSE IF StartsWith(line, PrefixEvent)
             THEN ParseSseLines(Tail(lines), [event |-> Strip(Drop(line, 6))] @@ event, data_parts)
             ELSE IF StartsWith(line, PrefixData)
             THEN ParseSseLines(Tail(lines), event, Append(data_parts, Strip(Drop(line, 5))))
             ELSE ParseSseLines(Tail(lines), event, data_parts)

\* Variant: the lines are gone through from the last to the first.
_parse_sse_event_Backwards(lines) ==
    ParseSseLines([i \in 1..Len(lines) |-> lines[Len(lines) + 1 - i]], EmptyDict, <<>>)

_parse_sse_event(lines) == ParseSseLines(lines, EmptyDict, <<>>)

(***************************************************************************)
(* json.loads on the payloads the model sends.  A JSON text is one token   *)
(* of a line; a text split over two data lines is joined with "\n".        *)
(***************************************************************************)
JsonCompleted ==
    "{\"status\":\"completed\",\"call_id\":\"abc123\",\"duration_seconds\":42,\"transcript\":[{\"speaker\":\"agent\",\"text\":\"hi\"}]}"
JsonInProgress == "{\"status\":\"in_progress\",\"call_id\":\"abc123\",\"duration_seconds\":7}"
JsonTranscript ==
    "{\"call_id\":\"abc123\",\"status\":\"in_progress\",\"phase\":\"connected\",\"partial_transcript\":[{\"speaker\":\"agent\"}]}"
JsonCancelledHead == "{\"status\":"
JsonCancelledTail == "\"cancelled\"}"

DictCompleted ==
    [status |-> "completed", call_id |-> "abc123", duration_seconds |-> 42,
     transcript |-> <<[speaker |-> "agent", text |-> "hi"]>>]
DictFailed == [status |-> "failed"]
DictInProgress == [status |-> "in_progress", call_id |-> "abc123", duration_seconds |-> 7]

JsonTable ==
    { << <<JsonCompleted>>, Some(DictCompleted) >>,
      << <<"{\"status\":\"failed\"}">>, Some(DictFailed) >>,
      << <<JsonInProgress>>, Some(DictInProgress) >>,
      << <<JsonTranscript>>,
         Some([call_id |-> "abc123", status |-> "in_progress", phase |-> "connected",
               partial_transcript |-> <<[speaker |-> "agent"]>>]) >>,
      << <<"{}">>, Some(EmptyDict) >>,
      << <<"null">>, None >>,
      << <<JsonCancelledHead, "\n", JsonCancelledTail>>, Some([status |-> "cancelled"]) >> }

JsonLoads(raw) ==
    IF \E p \in JsonTable : p[1] = raw
    THEN Return((CHOOSE p \in JsonTable : p[1] = raw)[2])
    ELSE Raise(BuiltinExc("JSONDecodeError"))

_result_from_sse_data(raw) ==
    LET data == JsonLoads(raw)
    IN  IF data.kind = "raise" THEN data
        ELSE LET result == parse_call_response(data.value)
             IN  IF result.kind = "raise" THEN result
                 ELSE IF result.value.cls # "CallResult"
                 THEN Raise(BuiltinExc("ValueError"))
                 ELSE result

\* Variant: the snapshot is built without the duration of the payload.
_progress_from_sse_data_NoDuration(raw) ==
    LET data == JsonLoads(raw)
    IN  IF data.kind = "raise" THEN data
        ELSE IF data.value = None THEN Raise(BuiltinExc("AttributeError"))
        ELSE LET d == data.value[1]
             IN  NewDataclass("CallProgress", CallProgressFields, CallProgressDefaults,
                     [call_id |-> DictGet(d, "call_id", ""),
                      status |-> DictGet(d, "status", ""),
                      phase |-> IF Has(d, "phase") THEN Some(d["phase"]) ELSE None,
                      partial_transcript |->
                          IF Has(d, "partial_transcript")
                          THEN Some([i \in 1..Len(d["partial_transcript"]) |->
                                  [cls |-> "TranscriptTurn",
                                   speaker |-> DictGet(d["partial_transcript"][i], "speaker", ""),
                                   text |-> DictGet(d["partial_transcript"][i], "text", "")]])
                          ELSE None])

_progress_from_sse_data(raw) ==
    LET data == JsonLoads(raw)
    IN  IF data.kind = "raise" THEN data
        ELSE IF data.value = None THEN Raise(BuiltinExc("AttributeError"))
        ELSE LET d == data.value[1]
             IN  NewDataclass("CallProgress", CallProgressFields, CallProgressDefaults,
                     [call_id |-> DictGet(d, "call_id", ""),
                      status |-> DictGet(d, "status", ""),
                      phase |-> IF Has(d, "phase") THEN Some(d["phase"]) ELSE None,
                      duration_seconds |->
                          IF Has(d, "duration_seconds") THEN Some(d["duration_seconds"]) ELSE None,
                      partial_transcript |->
                          IF Has(d, "partial_transcript")
                          THEN Some([i \in 1..Len(d["partial_transcript"]) |->
                                  [cls |-> "TranscriptTurn",
                                   speaker |-> DictGet(d["partial_transcript"][i], "speaker", ""),
                                   text |-> DictGet(d["partial_transcript"][i], "text", "")]])
                          ELSE None])

_progress_from_call_status(cs) ==
    NewDataclass("CallProgress", CallProgressFields, CallProgressDefaults,
        [call_id |-> cs.call_id,
         status |-> cs.status,
         phase |-> cs.phase,
         duration_seconds |-> cs.duration_seconds,
         partial_transcript |-> cs.partial_transcript])


(***************************************************************************)
(* The HTTP exchanges.  A response is what the transport hands back: a     *)
(* transport failure, or a status code with a body that is empty, a JSON   *)
(* object, or bytes that are not JSON.                                     *)
(***************************************************************************)
HttpResponse(status_code, content, json) ==
    [kind |-> "response", status_code |-> status_code, content |-> content, json |-> json]

\* data = resp.json() if resp.content else None
ResponseData(resp) ==
    IF resp.content = "empty" THEN Return(None)
    ELSE IF resp.content = "json" THEN Return(Some(resp.json))
    ELSE Raise(BuiltinExc("JSONDecodeError"))

\* CallsAPI.create / AsyncCallsAPI.create, given the transport's answer.
create(resp) ==
    IF resp.kind = "transport_error" THEN Raise(BuiltinExc("TransportError"))
    ELSE LET data == ResponseData(resp)
         IN  IF data.kind = "raise" THEN data
             ELSE LET checked == check_response(resp.status_code, data.value)
                  IN  IF checked.kind = "raise" THEN checked
                      ELSE parse_call_initiated(data.value)

\* CallsAPI.get / AsyncCallsAPI.get, given the transport's answer.
get(resp) ==
    IF resp.kind = "transport_error" THEN Raise(BuiltinExc("TransportError"))
    ELSE LET data == ResponseData(resp)
         IN  IF data.kind = "raise" THEN data
             ELSE LET checked == check_response(resp.status_code, data.value)
                  IN  IF checked.kind = "raise" THEN checked
                      ELSE parse_call_response(data.value)

\* The error branch of _sse_connect: the body is read and decoded inside a
\* try/except that leaves data = None, then check_response raises.
SseOpenError(resp) ==
    check_response(resp.status_code,
                   IF resp.content = "json" THEN Some(resp.json) ELSE None)

(***************************************************************************)
(* Exception routing on the stream path.                                   *)
(***************************************************************************)
\* Variant: every exception is taken for a transport failure.
IsTransportError_AnyError(exc) == TRUE

\* except (httpx.TransportError, httpx.StreamError) in _stream_until_complete
IsTransportError(exc) == exc.type \in {"TransportError", "StreamError"}

\* except Exception in create_and_wait: everything but the BaseException-only
\* classes.
IsException(exc) == exc.type \notin {"KeyboardInterrupt", "SystemExit", "CancelledError"}

\* Variant: create_and_wait has no except clause around the stream path.
OnStreamException_Uncaught(exc, att) ==
    IF IsTransportError(exc) /\ att < _MAX_SSE_RECONNECTS THEN "reconnect"
    ELSE "propagate"

\* Variant: the reconnect budget is one larger.
OnStreamException_TwoReconnects(exc, att) ==
    IF IsTransportError(exc) /\ att < _MAX_SSE_RECONNECTS + 1 THEN "reconnect"
    ELSE IF IsException(exc) THEN "fallback"
    ELSE "propagate"

\* Where control goes when stream attempt number att raises exc.
OnStreamException(exc, att) ==
    IF IsTransportError(exc) /\ att < _MAX_SSE_RECONNECTS THEN "reconnect"
    ELSE IF IsException(exc) THEN "fallback"
    ELSE "propagate"

\* Variant: a stream that ends without result is never reconnected.
OnStreamEnd_NoReconnect(att) ==
    OnStreamException(BuiltinExc("RuntimeError"), att)

\* Where control goes when stream attempt number att ends with (None, cursor):
\* the for loop goes on to the next attempt, and after the last one the
\* RuntimeError is raised and caught by create_and_wait.
OnStreamEnd(att) ==
    IF att < _MAX_SSE_RECONNECTS THEN "reconnect"
    ELSE OnStreamException(BuiltinExc("RuntimeError"), att)

\* Variant: the polling loop swallows a failed get() and tries again.
PollDecision_Retries(result, has_callback) ==
    IF result.kind = "raise" THEN "continue"
    ELSE IF result.value.status \in TERMINAL_STATUSES THEN "return"
    ELSE IF has_callback /\ result.value.cls = "CallStatus" THEN "callback"
    ELSE "continue"

\* Variant: the polling loop never reports progress.
PollDecision_NoCallback(result, has_callback) ==
    IF result.kind = "raise" THEN "propagate"
    ELSE IF result.value.status \in TERMINAL_STATUSES THEN "return"
    ELSE "continue"

\* What one iteration of the polling loop does with the outcome of get().
PollDecision(result, has_callback) ==
    IF result.kind = "raise" THEN "propagate"
    ELSE IF result.value.status \in TERMINAL_STATUSES THEN "return"
    ELSE IF has_callback /\ result.value.cls = "CallStatus" THEN "callback"
    ELSE "continue"

\* Variant: an iteration that does not end the polling loop goes back to
\* the stream.
PollNextPc_BackToStream(todo) ==
    IF todo \in {"propagate", "return"} THEN "done" ELSE "sse_connect"

\* Variant: the loop sleeps only before its first fetch.
PollNextPc_NoSleep(todo) ==
    IF todo \in {"propagate", "return"} THEN "done" ELSE "poll_get"

\* Where the polling loop is after an iteration: while True goes back to the
\* sleep unless the iteration returned or raised.
PollNextPc(todo) ==
    IF todo \in {"propagate", "return"} THEN "done" ELSE "poll_sleep"

\* Variant: the outcome of create() is not looked at.
AfterCreate_IgnoresFailure(initiated, sse) ==
    IF sse THEN "stream" ELSE "poll"

\* Variant: the use_sse argument is not looked at.
AfterCreate_AlwaysStreams(initiated, sse) ==
    IF initiated.kind = "raise" THEN "propagate"
    ELSE "stream"

\* What create_and_wait does after create().
AfterCreate(initiated, sse) ==
    IF initiated.kind = "raise" THEN "propagate"
    ELSE IF sse THEN "stream"
    ELSE "poll"


(***************************************************************************)
(* Inputs: what the gateway and the callback may do.                       *)
(***************************************************************************)
\* The answers the gateway gives during a wait: every kind of failure and
\* every shape of success body, each with a status code it occurs with.
WaitResponses ==
    { [kind |-> "transport_error"],
      HttpResponse(200, "empty", EmptyDict),
      HttpResponse(200, "garbage", EmptyDict),
      HttpResponse(500, "empty", EmptyDict),
      HttpResponse(500, "garbage", EmptyDict),
      HttpResponse(401, "json", [error |-> [code |-> "TOKEN_EXPIRED", message |-> "expired"]]),
      HttpResponse(429, "json", [error |-> [code |-> "RATE_LIMITED", message |-> "slow down"]]),
      HttpResponse(400, "json", [error |-> [code |-> "INVALID_PHONE", message |-> "bad number"]]),
      HttpResponse(500, "json", [error |-> [code |-> "WEIRD"]]),
      HttpResponse(302, "json", [call_id |-> "abc123"]),
      HttpResponse(200, "json", [call_id |-> "abc123"]),
      HttpResponse(200, "json", EmptyDict),
      HttpResponse(200, "json", [status |-> "in_progress", call_id |-> "abc123"]),
      HttpResponse(200, "json", DictInProgress),
      HttpResponse(200, "json", DictCompleted),
      HttpResponse(200, "json", DictFailed) }

LineId1 == PrefixId \o <<"1">>
LineId2 == PrefixId \o <<"\\xa0", "2", " ", "\r">>
LineIdEmpty == PrefixId
LineEventResult == PrefixEvent \o <<"r", "e", "s", "u", "l", "t">>
LineEventStatus == PrefixEvent \o <<" ", "s", "t", "a", "t", "u", "s">>
LineData(text) == PrefixData \o <<" ", text>>

EventResult == <<"r", "e", "s", "u", "l", "t">>
EventStatus == <<"s", "t", "a", "t", "u", "s">>
EventTranscript == <<"t", "r", "a", "n", "s", "c", "r", "i", "p", "t">>

LineComment == <<":", "k">>

\* The non-blank lines the gateway may send on the stream.
SseLines ==
    { LineId1, LineId2, LineIdEmpty,
      LineEventResult, LineEventStatus,
      LineData(JsonCompleted), LineData(JsonInProgress), LineData("oops") }

RECURSIVE SeqsUpTo(_, _)
SeqsUpTo(S, n) ==
    IF n = 0 THEN {<<>>}
    ELSE LET shorter == SeqsUpTo(S, n - 1)
         IN  shorter \cup { Append(q, x) : q \in shorter, x \in S }

(***************************************************************************)
(* State of one create_and_wait execution.                                 *)
(***************************************************************************)
VARIABLES
    pc,                  \* "create", "sse_connect", "sse_error_body", "sse_read",
                         \* "sse_close", "poll_sleep", "poll_get", "done"
    use_sse,             \* the use_sse argument
    poll_interval,       \* the poll_interval argument, in seconds
    on_progress,         \* TRUE when a progress callback is supplied
    outcome,             \* [kind |-> "pending"], or what create_and_wait returned or raised
    attempt,             \* loop variable of _stream_until_complete
    last_event_id,       \* last_event_id of _stream_until_complete (Optional)
    conn_last_event_id,  \* last_event_id local to the running _sse_connect (Optional)
    connOpen,            \* number of stream connections currently open
    stream_resp,         \* Optional: the stream response of status 400 or more whose body
                         \* _sse_connect is reading
    closing,             \* Optional: how control left the body of the with statement of
                         \* _sse_connect, while the exit of the statement closes the response
    eventsRead,          \* blank-line terminated runs read in the body of the with statement
    opens,               \* Last-Event-Id header (Optional) of each stream request, in order
    nCreate,             \* create requests issued
    nSleep,              \* interval waits done
    lastSleep,           \* seconds the last interval wait slept, 0 before the first
    nGet,                \* status fetches issued
    nCb,                 \* progress callback invocations
    lastCb,              \* Optional: the snapshot passed to the last callback invocation
    cbRaisedAt,          \* "none", or the path on which the callback raised: "stream", "poll"
    streamTerminalResult,\* a result event with a terminal-status payload was read
    streamFailure,       \* "none", or how the last stream attempt failed
    lastGet,             \* Optional: the transport's answer to the last status fetch and
                         \* what get() made of it
    lastCreate,          \* Optional: the same for the create request
    pollTerminal,        \* Optional: the first terminal status body polling received
    firstConn,           \* Optional: how the first stream attempt ended, with what
                         \* exception, and the cursor _sse_connect held at that moment
    nPollCb,             \* progress callback invocations made by the polling loop
    nNonTerminal,        \* status fetches that returned a non-terminal CallStatus
    abandoned,           \* the caller cancelled or interrupted the pending wait
    client_headers,      \* self._headers: the header dict all requests of the client share
    waits,               \* the stream state of each of two waits running interleaved
    fn,                  \* the pure function under examination, "none" during a wait
    arg,                 \* its argument
    ret                  \* Optional: its outcome

vars ==
    <<pc, use_sse, poll_interval, lastSleep, on_progress, outcome, attempt, last_event_id, conn_last_event_id,
      connOpen, stream_resp, closing, eventsRead, opens, nCreate, nSleep, nGet, nCb, lastCb, cbRaisedAt,
      streamTerminalResult, streamFailure, lastGet, lastCreate, pollTerminal,
      firstConn, nPollCb, nNonTerminal, abandoned, client_headers, waits,
      fn, arg, ret>>

argVars == <<use_sse, on_progress, poll_interval>>
streamVars ==
    <<attempt, last_event_id, conn_last_event_id, connOpen, stream_resp, closing, eventsRead,
      opens, firstConn>>
pollVars == <<nSleep, lastSleep, nGet, lastGet, pollTerminal, nNonTerminal>>
cbVars == <<nCb, lastCb, cbRaisedAt, nPollCb>>
pureVars == <<fn, arg, ret>>
clientVars == <<client_headers, waits>>

\* BaseClient._headers(): what the client hands to CallsAPI as its headers.
ClientHeaders ==
    ("Content-Type" :> "application/json")
    @@ ("Authorization" :> "Bearer token")
    @@ ("X-Pine-User-Id" :> "user")

\* Variant: the Accept and Last-Event-Id headers are set on self._headers
\* itself.
StreamRequestHeaders_InPlace(shared, cursor) ==
    LET accept == ("Accept" :> "text/event-stream") @@ shared
        sent == IF cursor # None /\ cursor[1] # <<>>
                THEN ("Last-Event-Id" :> cursor[1]) @@ accept
                ELSE accept
    IN  [sent |-> sent, shared |-> sent]

\* Variant: a request without cursor asks for the events from the start.
StreamRequestHeaders_FromStart(shared, cursor) ==
    LET accept == ("Accept" :> "text/event-stream") @@ shared
        sent == IF cursor # None /\ cursor[1] # <<>>
                THEN ("Last-Event-Id" :> cursor[1]) @@ accept
                ELSE ("Last-Event-Id" :> <<"0">>) @@ accept
    IN  [sent |-> sent, shared |-> shared]

\* The headers of a stream request, built by _sse_connect from a copy of
\* self._headers, and self._headers afterwards.
StreamRequestHeaders(shared, cursor) ==
    LET accept == ("Accept" :> "text/event-stream") @@ shared
        sent == IF cursor # None /\ cursor[1] # <<>>
                THEN ("Last-Event-Id" :> cursor[1]) @@ accept
                ELSE accept
    IN  [sent |-> sent, shared |-> shared]

\* The Last-Event-Id header of a request, as an Optional.
LastEventIdOf(headers) ==
    IF Has(headers, "Last-Event-Id") THEN Some(headers["Last-Event-Id"]) ELSE None

\* No interleaved waits are running.
NoWaits == <<>>

\* The poll_interval arguments tried: the default and a caller's own value.
PollIntervals == {DEFAULT_POLL_INTERVAL, 1}

Pending == [kind |-> "pending"]
CallbackError == BuiltinExc("CallbackError")

\* What on_progress may do when it is invoked: return, raise an exception of
\* its own, or raise an httpx transport error (a callback that itself talks
\* to a server).  An interrupt during the callback is an abandoned wait.
CallbackOutcomes == {None, Some(CallbackError), Some(BuiltinExc("TransportError"))}

WaitInit ==
    /\ outcome = Pending
    /\ attempt = 0
    /\ last_event_id = None
    /\ conn_last_event_id = None
    /\ connOpen = 0
    /\ stream_resp = None
    /\ closing = None
    /\ eventsRead = 0
    /\ opens = <<>>
    /\ nCreate = 0
    /\ nSleep = 0
    /\ lastSleep = 0
    /\ nGet = 0
    /\ nCb = 0
    /\ lastCb = None
    /\ cbRaisedAt = "none"
    /\ streamTerminalResult = FALSE
    /\ streamFailure = "none"
    /\ lastGet = None
    /\ lastCreate = None
    /\ pollTerminal = None
    /\ firstConn = None
    /\ nPollCb = 0
    /\ nNonTerminal = 0
    /\ abandoned = FALSE

Init ==
    /\ pc = "create"
    /\ WaitInit
    /\ use_sse \in BOOLEAN
    /\ on_progress \in BOOLEAN
    /\ poll_interval \in PollIntervals
    /\ client_headers = ClientHeaders
    /\ waits = NoWaits
    /\ fn = "none"
    /\ arg = None
    /\ ret = None

(***************************************************************************)
(* create_and_wait: the create request and the choice of path.             *)
(***************************************************************************)
\* The create request is answered with resp.
CreateStep(resp) ==
    /\ pc = "create"
    /\ LET initiated == create(resp)
           todo == AfterCreate(initiated, use_sse)
       IN  /\ nCreate' = nCreate + 1
           /\ lastCreate' = Some([resp |-> resp, result |-> initiated])
           /\ IF todo = "propagate"
              THEN pc' = "done" /\ outcome' = initiated
              ELSE /\ pc' = IF todo = "stream" THEN "sse_connect" ELSE "poll_sleep"
                   /\ outcome' = outcome
    /\ UNCHANGED <<client_headers, argVars, abandoned, streamVars, pollVars, cbVars, streamTerminalResult, streamFailure>>

Create ==
    /\ \E resp \in WaitResponses : CreateStep(resp)
    /\ UNCHANGED <<pureVars, waits>>

(***************************************************************************)
(* The stream path: _stream_until_complete and _sse_connect.               *)
(***************************************************************************)
\* Control has left _sse_connect and _stream_until_complete and
\* create_and_wait route it towards todo; cursor is the value of
\* last_event_id in _sse_connect at that moment, which is kept for the next
\* attempt only when _sse_connect returned it, and how names the way the
\* attempt ended.
LeaveStreamAttempt(todo, exc, returned, cursor, how) ==
    /\ streamFailure' = how
    /\ firstConn' = IF attempt = 0
                    THEN Some([how |-> how,
                               exc |-> IF returned THEN "none" ELSE exc.type,
                               cursor |-> cursor])
                    ELSE firstConn
    /\ eventsRead' = 0
    /\ conn_last_event_id' = None
    /\ last_event_id' = IF returned THEN cursor ELSE last_event_id
    /\ IF todo = "reconnect"
       THEN pc' = "sse_connect" /\ attempt' = attempt + 1 /\ outcome' = outcome
       ELSE IF todo = "fallback"
       THEN pc' = "poll_sleep" /\ attempt' = attempt /\ outcome' = outcome
       ELSE pc' = "done" /\ attempt' = attempt /\ outcome' = Raise(exc)

\* Control leaves the body of the with statement of _sse_connect, by the
\* exception exc, by the return of result (todo is "return"), or at the end
\* of the line loop (returned, with no result).  The response is still open:
\* the exit of the with statement closes it, and only then is control
\* routed.  cursor is the value of last_event_id in _sse_connect.
LeaveBody(todo, exc, returned, cursor, how, result) ==
    /\ pc' = "sse_close"
    /\ stream_resp' = None
    /\ closing' = Some([todo |-> todo, exc |-> exc, returned |-> returned,
                        how |-> how, result |-> result])
    /\ conn_last_event_id' = cursor
    /\ eventsRead' = 0
    /\ UNCHANGED <<attempt, last_event_id, outcome, streamFailure, firstConn>>

\* The stream request is sent and answered with resp: the status line and
\* the headers of the response.  A transport error is raised on entering
\* the with statement, before there is a response.  Otherwise the body of
\* the with statement is entered with the response open; with a status of
\* 400 or more it goes on to read the body of the response, which is still
\* to arrive.
SseOpenStep(resp) ==
    /\ pc = "sse_connect"
    /\ LET headers == StreamRequestHeaders(client_headers, last_event_id)
       IN  /\ opens' = Append(opens, LastEventIdOf(headers.sent))
           /\ client_headers' = headers.shared
    /\ (
         IF resp.kind = "transport_error"
         THEN /\ LeaveStreamAttempt(OnStreamException(BuiltinExc("TransportError"), attempt),
                                    BuiltinExc("TransportError"), FALSE, last_event_id, "transport")
              /\ UNCHANGED <<connOpen, stream_resp, closing>>
         ELSE /\ pc' = IF resp.status_code >= 400 THEN "sse_error_body" ELSE "sse_read"
              /\ stream_resp' = IF resp.status_code >= 400 THEN Some(resp) ELSE None
              /\ connOpen' = connOpen + 1
              /\ eventsRead' = 0
              /\ conn_last_event_id' = last_event_id
              /\ UNCHANGED <<attempt, last_event_id, outcome, streamFailure, firstConn, closing>>
       )
    /\ UNCHANGED <<argVars, abandoned, nCreate, lastCreate, pollVars, cbVars, streamTerminalResult>>

SseOpen ==
    /\ \E resp \in WaitResponses : SseOpenStep(resp)
    /\ UNCHANGED <<pureVars, waits>>

\* The body of the response of status 400 or more has been read, or the
\* read has failed (arrived is FALSE), which the except clause around it
\* swallows with data still None: check_response raises, and the exception
\* leaves the body of the with statement.
SseErrorBodyStep(arrived) ==
    /\ pc = "sse_error_body"
    /\ LET read == IF arrived THEN stream_resp[1]
                   ELSE [stream_resp[1] EXCEPT !.content = "empty"]
           exc == SseOpenError(read).exc
       IN  LeaveBody(OnStreamException(exc, attempt), exc, FALSE,
                     conn_last_event_id, "http_error", Pending)
    /\ UNCHANGED <<client_headers, argVars, abandoned, connOpen, opens, nCreate, lastCreate,
                   pollVars, cbVars, streamTerminalResult>>

SseErrorBody ==
    /\ \E arrived \in BOOLEAN : SseErrorBodyStep(arrived)
    /\ UNCHANGED <<pureVars, waits>>

\* What _sse_connect has at a blank line: whether buf is empty, and
\* _parse_sse_event(buf), for every run of non-blank lines the gateway may
\* send between two blank lines.
ParsedEventRuns ==
    { [buf_empty |-> buf = <<>>, event |-> _parse_sse_event(buf)] :
        buf \in SeqsUpTo(SseLines, MaxEventLines) }

\* A run of non-blank lines followed by a blank line has arrived: the lines
\* were accumulated in buf and the blank line makes _sse_connect handle the
\* event, given as run; cb_exc is what the callback, if invoked, raises.
\* The loop goes on to the next line, or control leaves the body of the
\* with statement.
SseHandle(run, cb_exc) ==
    /\ pc = "sse_read"
    /\ eventsRead < MaxEvents
    /\ (
         IF run.buf_empty
         THEN /\ eventsRead' = eventsRead + 1
              /\ UNCHANGED <<pc, attempt, last_event_id, conn_last_event_id, stream_resp, closing, outcome,
                             firstConn, cbVars, streamTerminalResult, streamFailure>>
         ELSE
         LET event == run.event
             cursor == IF Has(event, "id") /\ event["id"] # <<>>
                       THEN Some(event["id"]) ELSE conn_last_event_id
             event_type == IF Has(event, "event") THEN Some(event["event"]) ELSE None
         IN  IF event_type = Some(EventResult) /\ Has(event, "data")
             THEN LET result == _result_from_sse_data(event["data"])
                      loaded == JsonLoads(event["data"])
                  IN  /\ streamTerminalResult' =
                            (\/ streamTerminalResult
                             \/ /\ loaded.kind = "return"
                                /\ loaded.value # None
                                /\ DictGet(loaded.value[1], "status", "") \in TERMINAL_STATUSES)
                      /\ IF result.kind = "return"
                         THEN LeaveBody("return", BuiltinExc("RuntimeError"), TRUE, cursor,
                                        "result", result)
                         ELSE LeaveBody(OnStreamException(result.exc, attempt),
                                        result.exc, FALSE, cursor, "payload", Pending)
                      /\ UNCHANGED cbVars
             ELSE IF /\ event_type \in {Some(EventStatus), Some(EventTranscript)}
                     /\ Has(event, "data")
                     /\ on_progress
             THEN LET progress == _progress_from_sse_data(event["data"])
                  IN  IF progress.kind = "raise"
                      THEN /\ LeaveBody(OnStreamException(progress.exc, attempt),
                                        progress.exc, FALSE, cursor, "payload", Pending)
                           /\ UNCHANGED <<cbVars, streamTerminalResult>>
                      ELSE /\ nCb' = nCb + 1
                           /\ nPollCb' = nPollCb
                           /\ lastCb' = Some(progress.value)
                           /\ IF cb_exc # None
                              THEN /\ LeaveBody(
                                        OnStreamException(cb_exc[1], attempt),
                                        cb_exc[1], FALSE, cursor,
                                        IF IsTransportError(cb_exc[1])
                                        THEN "callback_transport" ELSE "callback",
                                        Pending)
                                   /\ cbRaisedAt' = "stream"
                              ELSE /\ eventsRead' = eventsRead + 1
                                   /\ conn_last_event_id' = cursor
                                   /\ UNCHANGED <<pc, attempt, last_event_id, stream_resp, closing, outcome,
                                                  firstConn, streamFailure, cbRaisedAt>>
                           /\ UNCHANGED streamTerminalResult
             ELSE /\ eventsRead' = eventsRead + 1
                  /\ conn_last_event_id' = cursor
                  /\ UNCHANGED <<pc, attempt, last_event_id, stream_resp, closing, outcome,
                                 firstConn, cbVars, streamTerminalResult, streamFailure>>
       )
    /\ UNCHANGED <<client_headers, argVars, abandoned, connOpen, opens, nCreate, lastCreate,
                   pollVars>>

SseEvent ==
    /\ \E run \in ParsedEventRuns, cb_exc \in CallbackOutcomes : SseHandle(run, cb_exc)
    /\ UNCHANGED <<pureVars, waits>>

\* The gateway closes the stream: the line loop ends; lines not yet
\* followed by a blank line are still in buf and are dropped with it.
SseEndStep ==
    /\ pc = "sse_read"
    /\ LeaveBody(OnStreamEnd(attempt), BuiltinExc("RuntimeError"),
                 TRUE, conn_last_event_id, "ended", Pending)
    /\ UNCHANGED <<client_headers, argVars, abandoned, connOpen, opens, nCreate, lastCreate,
                   pollVars, cbVars, streamTerminalResult>>

SseEnd == SseEndStep /\ UNCHANGED <<pureVars, waits>>

\* The connection drops or times out while lines are being read.
SseDropStep ==
    /\ pc = "sse_read"
    /\ LeaveBody(OnStreamException(BuiltinExc("TransportError"), attempt),
                 BuiltinExc("TransportError"), FALSE, conn_last_event_id, "transport", Pending)
    /\ UNCHANGED <<client_headers, argVars, abandoned, connOpen, opens, nCreate, lastCreate,
                   pollVars, cbVars, streamTerminalResult>>

SseDrop == SseDropStep /\ UNCHANGED <<pureVars, waits>>

\* The exit of the with statement has closed the response, and control goes
\* where it was going when it left the body: the result is returned, or
\* _stream_until_complete and create_and_wait route the end of the attempt.
SseCloseStep ==
    /\ pc = "sse_close"
    /\ connOpen' = connOpen - 1
    /\ closing' = None
    /\ stream_resp' = stream_resp
    /\ LET leaving == closing[1]
       IN  IF leaving.todo = "return"
           THEN /\ pc' = "done"
                /\ outcome' = leaving.result
                /\ eventsRead' = 0
                /\ conn_last_event_id' = None
                /\ last_event_id' = conn_last_event_id
                /\ UNCHANGED <<attempt, streamFailure, firstConn>>
           ELSE LeaveStreamAttempt(leaving.todo, leaving.exc, leaving.returned,
                                   conn_last_event_id, leaving.how)
    /\ UNCHANGED <<client_headers, argVars, abandoned, opens, nCreate, lastCreate, pollVars,
                   cbVars, streamTerminalResult>>

SseClose == SseCloseStep /\ UNCHANGED <<pureVars, waits>>

(***************************************************************************)
(* The polling path: _poll_until_complete.                                 *)
(***************************************************************************)
PollSleepStep ==
    /\ pc = "poll_sleep"
    /\ nGet < MaxPolls
    /\ nSleep' = nSleep + 1
    /\ lastSleep' = poll_interval
    /\ pc' = "poll_get"
    /\ UNCHANGED <<client_headers, argVars, abandoned, outcome, streamVars, nCreate, lastCreate,
                   nGet, lastGet, pollTerminal, nNonTerminal,
                   cbVars, streamTerminalResult, streamFailure>>

PollSleep == PollSleepStep /\ UNCHANGED <<pureVars, waits>>

\* The status request is answered with resp; cb_exc is what the callback,
\* if invoked, raises.
PollGetStep(resp, cb_exc) ==
    /\ pc = "poll_get"
    /\ (
         LET result == get(resp)
             todo == PollDecision(result, on_progress)
         IN  /\ nGet' = nGet + 1
             /\ lastGet' = Some([resp |-> resp, result |-> result])
             /\ nNonTerminal' =
                  IF result.kind = "return" /\ result.value.cls = "CallStatus"
                  THEN nNonTerminal + 1 ELSE nNonTerminal
             /\ pollTerminal' =
                  IF /\ pollTerminal = None
                     /\ resp.kind = "response"
                     /\ resp.status_code < 400
                     /\ resp.content = "json"
                     /\ DictGet(resp.json, "status", "") \in TERMINAL_STATUSES
                  THEN Some(resp.json) ELSE pollTerminal
             /\ IF todo = "propagate"
                THEN pc' = "done" /\ outcome' = result /\ UNCHANGED cbVars
                ELSE IF todo = "return"
                THEN pc' = "done" /\ outcome' = Return(result.value) /\ UNCHANGED cbVars
                ELSE IF todo = "callback"
                THEN /\ nCb' = nCb + 1
                     /\ nPollCb' = nPollCb + 1
                     /\ lastCb' = Some(_progress_from_call_status(result.value).value)
                     /\ IF cb_exc # None
                        THEN pc' = "done" /\ outcome' = Raise(cb_exc[1]) /\ cbRaisedAt' = "poll"
                        ELSE pc' = PollNextPc(todo) /\ outcome' = outcome /\ cbRaisedAt' = cbRaisedAt
                ELSE pc' = PollNextPc(todo) /\ outcome' = outcome /\ UNCHANGED cbVars
       )
    /\ UNCHANGED <<client_headers, argVars, abandoned, streamVars, nCreate, lastCreate, nSleep, lastSleep,
                   streamTerminalResult, streamFailure>>

PollGet ==
    /\ \E resp \in WaitResponses, cb_exc \in CallbackOutcomes : PollGetStep(resp, cb_exc)
    /\ UNCHANGED <<pureVars, waits>>

(***************************************************************************)
(* The caller abandons the pending wait: the task running the coroutine is *)
(* cancelled (asyncio.CancelledError is raised at the await the coroutine  *)
(* is suspended on) or the blocking call is interrupted                    *)
(* (KeyboardInterrupt).  Both derive from BaseException only.              *)
(*                                                                         *)
(* While the request is being sent there is no response yet.  In the body  *)
(* of the with statement (reading the body of an error response, where the *)
(* except clause catches Exception only, or reading the lines) the         *)
(* exception leaves the body like any other and                            *)
(* the exit of the statement closes the response.  While that exit is      *)
(* closing the response (after the body was left by an event that failed,  *)
(* by the result, by the end of the stream, or by an earlier interrupt)    *)
(* the exception is raised inside the close, takes the place of whatever   *)
(* was leaving the body, and no handler of calls.py closes the response    *)
(* again: whether the connection has been released by then is up to how    *)
(* far the close had come, given as released.                              *)
(***************************************************************************)
AbandonExceptions == {BuiltinExc("CancelledError"), BuiltinExc("KeyboardInterrupt")}

AbandonStep(exc, released) ==
    /\ pc \in {"create", "sse_connect", "sse_error_body", "sse_read", "sse_close",
                "poll_sleep", "poll_get"}
    /\ abandoned' = TRUE
    /\ IF pc = "sse_connect"
       THEN /\ LeaveStreamAttempt(OnStreamException(exc, attempt), exc, FALSE,
                                  last_event_id, "abandoned")
            /\ UNCHANGED <<connOpen, stream_resp, closing>>
       ELSE IF pc \in {"sse_error_body", "sse_read"}
       THEN /\ LeaveBody(OnStreamException(exc, attempt), exc, FALSE,
                         conn_last_event_id, "abandoned", Pending)
            /\ UNCHANGED connOpen
       ELSE IF pc = "sse_close"
       THEN /\ connOpen' = IF released THEN connOpen - 1 ELSE connOpen
            /\ closing' = None
            /\ stream_resp' = stream_resp
            /\ LeaveStreamAttempt(OnStreamException(exc, attempt), exc, FALSE,
                                  conn_last_event_id, "abandoned")
       ELSE /\ pc' = "done"
            /\ outcome' = Raise(exc)
            /\ UNCHANGED <<streamVars, streamFailure>>
    /\ UNCHANGED <<client_headers, argVars, opens, nCreate, lastCreate, pollVars, cbVars,
                   streamTerminalResult>>

Abandon ==
    /\ \E exc \in AbandonExceptions, released \in BOOLEAN : AbandonStep(exc, released)
    /\ UNCHANGED <<pureVars, waits>>

Next ==
    \/ Create
    \/ SseOpen
    \/ SseErrorBody
    \/ SseEvent
    \/ SseEnd
    \/ SseDrop
    \/ SseClose
    \/ PollSleep
    \/ PollGet
    \/ Abandon

Spec == Init /\ [][Next]_vars


(***************************************************************************)
(* parse_call_response as a pure function: every input of ParseInputs is   *)
(* handed to it once.                                                      *)
(***************************************************************************)
SampleFields ==
    [call_id |-> "abc123",
     duration_seconds |-> 42,
     transcript |-> <<[speaker |-> "agent", text |-> "hi"], [speaker |-> "user"]>>,
     summary |-> "booked",
     credits_charged |-> 3]

ParseInputs ==
    {None}
    \cup { Some([k \in ks |-> SampleFields[k]]) : ks \in SUBSET DOMAIN SampleFields }
    \cup { Some([status |-> st] @@ [k \in ks |-> SampleFields[k]]) :
             st \in {"initiated", "in_progress", "completed", "failed", "cancelled", "queued", ""},
             ks \in SUBSET DOMAIN SampleFields }

InitParse ==
    /\ pc = "idle"
    /\ WaitInit
    /\ use_sse = FALSE
    /\ on_progress = FALSE
    /\ poll_interval = DEFAULT_POLL_INTERVAL
    /\ client_headers = ClientHeaders
    /\ waits = NoWaits
    /\ fn = "parse_call_response"
    /\ arg \in ParseInputs
    /\ ret = None

ApplyParse ==
    /\ fn = "parse_call_response"
    /\ ret = None
    /\ ret' = Some(parse_call_response(arg))
    /\ UNCHANGED <<pc, clientVars, argVars, abandoned, outcome, streamVars, nCreate, lastCreate, pollVars, cbVars,
                   streamTerminalResult, streamFailure, fn, arg>>

NextParse == ApplyParse

SpecParse == InitParse /\ [][NextParse]_vars

(***************************************************************************)
(* raise_api_error as a pure function: every pair of ClassifyInputs is     *)
(* handed to it once.                                                      *)
(***************************************************************************)
ClassifyStatuses == {400, 401, 403, 404, 429, 500, 503}

ClassifyCodes ==
    {"TOKEN_EXPIRED", "AUTH_REQUIRED", "RATE_LIMITED",
     "INVALID_PHONE", "DND_BLOCKED", "POLICY_VIOLATION", "INSUFFICIENT_DETAIL",
     "SUBSCRIPTION_REQUIRED", "INSUFFICIENT_CREDITS", "ACCESS_DENIED", "NOT_FOUND",
     "UNKNOWN", "INTERNAL"}

\* Response bodies: none, without an error object, with an error object
\* that has no code, and with each code, with and without a message.
ClassifyBodies ==
    {None, Some(EmptyDict), Some([detail |-> "x"]),
     Some([error |-> EmptyDict]), Some([error |-> [message |-> "boom"]])}
    \cup { Some([error |-> [code |-> c]]) : c \in ClassifyCodes }
    \cup { Some([error |-> [code |-> c, message |-> "boom"]]) : c \in ClassifyCodes }

ClassifyInputs == [http_status : ClassifyStatuses, body : ClassifyBodies]

InitClassify ==
    /\ pc = "idle"
    /\ WaitInit
    /\ use_sse = FALSE
    /\ on_progress = FALSE
    /\ poll_interval = DEFAULT_POLL_INTERVAL
    /\ client_headers = ClientHeaders
    /\ waits = NoWaits
    /\ fn = "raise_api_error"
    /\ arg \in ClassifyInputs
    /\ ret = None

ApplyClassify ==
    /\ fn = "raise_api_error"
    /\ ret = None
    /\ ret' = Some(raise_api_error(arg.http_status, arg.body))
    /\ UNCHANGED <<pc, clientVars, argVars, abandoned, outcome, streamVars, nCreate, lastCreate, pollVars, cbVars,
                   streamTerminalResult, streamFailure, fn, arg>>

NextClassify == ApplyClassify

SpecClassify == InitClassify /\ [][NextClassify]_vars

(***************************************************************************)
(* Two waits on the same client, for different calls, with their stream    *)
(* paths interleaved.  Each wait has the locals of _stream_until_complete  *)
(* and _sse_connect of its own; they share self._headers.  The requests    *)
(* each wait issues are recorded with their headers.                       *)
(***************************************************************************)
Waits == {1, 2}

\* The lines the stream of wait i sends: its own event id, an empty id, and
\* a line without id.
WaitLines(i) == {IF i = 1 THEN LineId1 ELSE LineId2, LineIdEmpty, LineEventStatus}

\* A wait after create() has returned, about to enter _stream_until_complete.
NewWait ==
    [pc |-> "sse_connect", attempt |-> 0, last_event_id |-> None,
     conn_last_event_id |-> None, eventsRead |-> 0, requests |-> <<>>]

\* The locals of wait w after its stream attempt is left towards todo.
LeaveTwo(w, todo, returned, cursor) ==
    [w EXCEPT !.pc = IF todo = "reconnect" THEN "sse_connect"
                     ELSE IF todo = "fallback" THEN "poll_get"
                     ELSE "done",
              !.attempt = IF todo = "reconnect" THEN @ + 1 ELSE @,
              !.last_event_id = IF returned THEN cursor ELSE @,
              !.conn_last_event_id = None,
              !.eventsRead = 0]

InitTwo ==
    /\ pc = "idle"
    /\ WaitInit
    /\ use_sse = TRUE
    /\ on_progress = FALSE
    /\ poll_interval = DEFAULT_POLL_INTERVAL
    /\ client_headers = ClientHeaders
    /\ waits = [i \in Waits |-> NewWait]
    /\ fn = "two_waits"
    /\ arg = None
    /\ ret = None

singleWaitVars ==
    <<pc, argVars, abandoned, outcome, streamVars, nCreate, lastCreate, pollVars, cbVars,
      streamTerminalResult, streamFailure, pureVars>>

TwoOpen(i) ==
    /\ waits[i].pc = "sse_connect"
    /\ LET headers == StreamRequestHeaders(client_headers, waits[i].last_event_id)
           w == [waits[i] EXCEPT
                   !.requests = Append(@, [op |-> "stream", headers |-> headers.sent])]
       IN  /\ client_headers' = headers.shared
           /\ \E connected \in BOOLEAN :
                waits' = [waits EXCEPT ![i] =
                    IF connected
                    THEN [w EXCEPT !.pc = "sse_read", !.conn_last_event_id = w.last_event_id]
                    ELSE LeaveTwo(w, OnStreamException(BuiltinExc("TransportError"), w.attempt),
                                  FALSE, None)]
    /\ UNCHANGED singleWaitVars

TwoEvent(i) ==
    /\ waits[i].pc = "sse_read"
    /\ waits[i].eventsRead < MaxEvents
    /\ \E line \in WaitLines(i) :
         LET event == _parse_sse_event(<<line>>)
             cursor == IF Has(event, "id") /\ event["id"] # <<>>
                       THEN Some(event["id"]) ELSE waits[i].conn_last_event_id
         IN  waits' = [waits EXCEPT ![i].conn_last_event_id = cursor,
                                    ![i].eventsRead = @ + 1]
    /\ UNCHANGED <<client_headers, singleWaitVars>>

TwoEnd(i) ==
    /\ waits[i].pc = "sse_read"
    /\ waits' = [waits EXCEPT ![i] =
                    LeaveTwo(@, OnStreamEnd(waits[i].attempt), TRUE, waits[i].conn_last_event_id)]
    /\ UNCHANGED <<client_headers, singleWaitVars>>

TwoDrop(i) ==
    /\ waits[i].pc = "sse_read"
    /\ waits' = [waits EXCEPT ![i] =
                    LeaveTwo(@, OnStreamException(BuiltinExc("TransportError"), waits[i].attempt),
                             FALSE, None)]
    /\ UNCHANGED <<client_headers, singleWaitVars>>

\* The first status fetch of the polling fallback, sent with self._headers.
TwoGet(i) ==
    /\ waits[i].pc = "poll_get"
    /\ waits' = [waits EXCEPT ![i].pc = "done",
                              ![i].requests =
                                  Append(@, [op |-> "get", headers |-> client_headers])]
    /\ UNCHANGED <<client_headers, singleWaitVars>>

NextTwo ==
    \E i \in Waits :
        \/ TwoOpen(i)
        \/ TwoEvent(i)
        \/ TwoEnd(i)
        \/ TwoDrop(i)
        \/ TwoGet(i)

SpecTwo == InitTwo /\ [][NextTwo]_vars

(***************************************************************************)
(* The stream path looked at closely: the wait stands where create() has   *)
(* returned and _stream_until_complete begins.  Every event handled is     *)
(* noted in arg and the event ids received so far are collected in ret.    *)
(* The lines include transcript events and heartbeat comments.             *)
(***************************************************************************)
StreamLines ==
    { LineId1, LineIdEmpty, LineEventStatus, PrefixEvent \o EventTranscript, LineComment,
      LineData(JsonInProgress), LineData(JsonTranscript) }

StreamEventRuns ==
    { [buf_empty |-> buf = <<>>, event |-> _parse_sse_event(buf)] :
        buf \in SeqsUpTo(StreamLines, MaxEventLines) }

CreatedExchange ==
    LET resp == HttpResponse(200, "json", [call_id |-> "abc123"])
    IN  [resp |-> resp, result |-> create(resp)]

InitStream ==
    /\ pc = "sse_connect"
    /\ use_sse = TRUE
    /\ on_progress \in BOOLEAN
    /\ poll_interval = DEFAULT_POLL_INTERVAL
    /\ outcome = Pending
    /\ attempt = 0
    /\ last_event_id = None
    /\ conn_last_event_id = None
    /\ connOpen = 0
    /\ stream_resp = None
    /\ closing = None
    /\ eventsRead = 0
    /\ opens = <<>>
    /\ nCreate = 1
    /\ lastCreate = Some(CreatedExchange)
    /\ nSleep = 0
    /\ lastSleep = 0
    /\ nGet = 0
    /\ nCb = 0
    /\ lastCb = None
    /\ cbRaisedAt = "none"
    /\ streamTerminalResult = FALSE
    /\ streamFailure = "none"
    /\ lastGet = None
    /\ pollTerminal = None
    /\ firstConn = None
    /\ nPollCb = 0
    /\ nNonTerminal = 0
    /\ abandoned = FALSE
    /\ client_headers = ClientHeaders
    /\ waits = NoWaits
    /\ fn = "sse_connect"
    /\ arg = None
    /\ ret = {}

StreamOpen ==
    /\ fn = "sse_connect"
    /\ \E resp \in WaitResponses : SseOpenStep(resp)
    /\ UNCHANGED <<pureVars, waits>>

StreamErrorBody ==
    /\ fn = "sse_connect"
    /\ \E arrived \in BOOLEAN : SseErrorBodyStep(arrived)
    /\ UNCHANGED <<pureVars, waits>>

StreamHandle ==
    /\ fn = "sse_connect"
    /\ \E run \in StreamEventRuns, cb_exc \in CallbackOutcomes :
         /\ SseHandle(run, cb_exc)
         /\ arg' = Some(run)
         /\ ret' = IF Has(run.event, "id") THEN ret \cup {run.event["id"]} ELSE ret
    /\ UNCHANGED <<fn, waits>>

StreamEnd ==
    /\ fn = "sse_connect"
    /\ SseEndStep
    /\ UNCHANGED <<pureVars, waits>>

StreamDrop ==
    /\ fn = "sse_connect"
    /\ SseDropStep
    /\ UNCHANGED <<pureVars, waits>>

StreamClose ==
    /\ fn = "sse_connect"
    /\ SseCloseStep
    /\ UNCHANGED <<pureVars, waits>>

NextStream ==
    \/ StreamOpen
    \/ StreamErrorBody
    \/ StreamHandle
    \/ StreamEnd
    \/ StreamDrop
    \/ StreamClose

SpecStream == InitStream /\ [][NextStream]_vars

(***************************************************************************)
(* AsyncCallsAPI.create_and_wait, as a function from the state of one      *)
(* pending wait and what happens next to the state afterwards.  The state  *)
(* holds the arguments, the locals of _stream_until_complete and           *)
(* _sse_connect, and what the wait has done so far: the Last-Event-Id of   *)
(* its stream requests, its requests, sleeps and callback invocations.     *)
(***************************************************************************)
AsyncStart(sse, has_callback, interval) ==
    [pc |-> "create", use_sse |-> sse, on_progress |-> has_callback,
     poll_interval |-> interval, outcome |-> Pending,
     attempt |-> 0, last_event_id |-> None, conn_last_event_id |-> None,
     connOpen |-> 0, stream_resp |-> None, closing |-> None,
     opens |-> <<>>, nCreate |-> 0, nSleep |-> 0, lastSleep |-> 0, nGet |-> 0,
     nCb |-> 0, lastCb |-> None]

\* await self._sse_connect(...) raises exc: the except clause for transport
\* errors goes on to the next attempt unless this was the last one; what it
\* re-raises, and every other Exception, is caught by create_and_wait, which
\* goes on to polling; anything else leaves create_and_wait.
Async_stream_failed(a, exc) ==
    IF exc.type \in {"TransportError", "StreamError"} /\ a.attempt < _MAX_SSE_RECONNECTS
    THEN [a EXCEPT !.pc = "sse_connect", !.attempt = @ + 1, !.conn_last_event_id = None]
    ELSE IF exc.type \notin {"KeyboardInterrupt", "SystemExit", "CancelledError"}
    THEN [a EXCEPT !.pc = "poll_sleep", !.conn_last_event_id = None]
    ELSE [a EXCEPT !.pc = "done", !.outcome = Raise(exc), !.conn_last_event_id = None]

\* Variant: a stream that ends without result goes straight to polling.
Async_stream_ended_NoReconnect(a) ==
    [a EXCEPT !.pc = "poll_sleep",
              !.last_event_id = a.conn_last_event_id, !.conn_last_event_id = None]

\* await self._sse_connect(...) returns (None, cursor): the cursor is kept
\* and the loop goes on to the next attempt; after the last attempt the
\* RuntimeError is raised, which create_and_wait catches.
Async_stream_ended(a) ==
    LET kept == [a EXCEPT !.last_event_id = a.conn_last_event_id,
                          !.conn_last_event_id = None]
    IN  IF a.attempt + 1 < _MAX_SSE_RECONNECTS + 1
        THEN [kept EXCEPT !.pc = "sse_connect", !.attempt = @ + 1]
        ELSE [kept EXCEPT !.pc = "poll_sleep"]

\* initiated = await self.create(...), answered with resp, and the choice of
\* path.
Async_create_and_wait(a, resp) ==
    LET initiated == create(resp)
        sent == [a EXCEPT !.nCreate = @ + 1]
    IN  IF initiated.kind = "raise"
        THEN [sent EXCEPT !.pc = "done", !.outcome = initiated]
        ELSE IF a.use_sse
        THEN [sent EXCEPT !.pc = "sse_connect"]
        ELSE [sent EXCEPT !.pc = "poll_sleep"]

\* Control leaves the body of the async with statement of _sse_connect:
\* leaving is the exception raised, the result returned, or the end of the
\* line loop.  The exit of the statement awaits the close of the response.
Async_leave_body(a, leaving) ==
    [a EXCEPT !.pc = "sse_close", !.stream_resp = None, !.closing = Some(leaving)]

\* _sse_connect up to the response: the request with its headers, answered
\* with resp, the status line and headers of the response.  With a status of
\* 400 or more the body of the response is awaited next.
Async_sse_open(a, resp) ==
    LET header == IF a.last_event_id # None /\ a.last_event_id[1] # <<>>
                  THEN a.last_event_id ELSE None
        sent == [a EXCEPT !.opens = Append(@, header)]
        entered == [sent EXCEPT !.connOpen = @ + 1, !.conn_last_event_id = a.last_event_id]
    IN  IF resp.kind = "transport_error"
        THEN Async_stream_failed(sent, BuiltinExc("TransportError"))
        ELSE IF resp.status_code >= 400
        THEN [entered EXCEPT !.pc = "sse_error_body", !.stream_resp = Some(resp)]
        ELSE [entered EXCEPT !.pc = "sse_read"]

\* The chunks of the error body have been awaited (arrived), or awaiting
\* them raised an Exception, which is swallowed: check_response raises.
Async_sse_error_body(a, arrived) ==
    LET read == IF arrived THEN a.stream_resp[1]
                ELSE [a.stream_resp[1] EXCEPT !.content = "empty"]
    IN  Async_leave_body(a, [kind |-> "raise", exc |-> SseOpenError(read).exc])

\* _sse_connect at a blank line, with run what buf holds.
Async_sse_event(a, run, cb_exc) ==
    IF run.buf_empty THEN a
    ELSE
    LET event == run.event
        moved == IF Has(event, "id") /\ event["id"] # <<>>
                 THEN [a EXCEPT !.conn_last_event_id = Some(event["id"])]
                 ELSE a
        event_type == IF Has(event, "event") THEN Some(event["event"]) ELSE None
    IN  IF event_type = Some(EventResult) /\ Has(event, "data")
        THEN LET result == _result_from_sse_data(event["data"])
             IN  IF result.kind = "raise"
                 THEN Async_leave_body(moved, [kind |-> "raise", exc |-> result.exc])
                 ELSE Async_leave_body(moved, [kind |-> "return", result |-> result])
        ELSE IF /\ event_type \in {Some(EventStatus), Some(EventTranscript)}
                /\ Has(event, "data")
                /\ a.on_progress
        THEN LET progress == _progress_from_sse_data(event["data"])
             IN  IF progress.kind = "raise"
                 THEN Async_leave_body(moved, [kind |-> "raise", exc |-> progress.exc])
                 ELSE LET called == [moved EXCEPT !.nCb = @ + 1,
                                                  !.lastCb = Some(progress.value)]
                      IN  IF cb_exc # None
                          THEN Async_leave_body(called, [kind |-> "raise", exc |-> cb_exc[1]])
                          ELSE called
        ELSE moved

\* The exit of the async with statement has closed the response: the
\* exception goes on to _stream_until_complete, or _sse_connect returns the
\* result or (None, cursor).
Async_sse_close(a) ==
    LET leaving == a.closing[1]
        closed == [a EXCEPT !.closing = None, !.connOpen = @ - 1]
    IN  IF leaving.kind = "raise"
        THEN Async_stream_failed(closed, leaving.exc)
        ELSE IF leaving.kind = "return"
        THEN [closed EXCEPT !.pc = "done", !.outcome = leaving.result,
                            !.last_event_id = a.conn_last_event_id,
                            !.conn_last_event_id = None]
        ELSE Async_stream_ended(closed)

\* await asyncio.sleep(poll_interval)
Async_poll_sleep(a) ==
    [a EXCEPT !.pc = "poll_get", !.nSleep = @ + 1, !.lastSleep = a.poll_interval]

\* result = await self.get(call_id), answered with resp, and the rest of the
\* loop body.
Async_poll_get(a, resp, cb_exc) ==
    LET result == get(resp)
        sent == [a EXCEPT !.nGet = @ + 1]
    IN  IF result.kind = "raise"
        THEN [sent EXCEPT !.pc = "done", !.outcome = result]
        ELSE IF result.value.status \in TERMINAL_STATUSES
        THEN [sent EXCEPT !.pc = "done", !.outcome = Return(result.value)]
        ELSE IF a.on_progress /\ result.value.cls = "CallStatus"
        THEN LET called == [sent EXCEPT
                              !.nCb = @ + 1,
                              !.lastCb = Some(_progress_from_call_status(result.value).value)]
             IN  IF cb_exc # None
                 THEN [called EXCEPT !.pc = "done", !.outcome = Raise(cb_exc[1])]
                 ELSE [called EXCEPT !.pc = "poll_sleep"]
        ELSE [sent EXCEPT !.pc = "poll_sleep"]

\* exc is raised at the await the coroutine is suspended on: the request, a
\* chunk of an error body or a line of the stream (the body of the async with statement is left), the
\* close of the response in the exit of that statement (the close is left
\* where it was, the connection released or not), a sleep or a status fetch.
Async_abandon(a, exc, released) ==
    IF a.pc = "sse_connect"
    THEN Async_stream_failed(a, exc)
    ELSE IF a.pc \in {"sse_error_body", "sse_read"}
    THEN Async_leave_body(a, [kind |-> "raise", exc |-> exc])
    ELSE IF a.pc = "sse_close"
    THEN Async_stream_failed(
             [a EXCEPT !.closing = None,
                       !.connOpen = IF released THEN @ - 1 ELSE @], exc)
    ELSE [a EXCEPT !.pc = "done", !.outcome = Raise(exc)]

(***************************************************************************)
(* The blocking and the asynchronous wait side by side: both are started   *)
(* with the same arguments and every step gives both the same thing to     *)
(* react to (the same response, the same event, the same failure).         *)
(***************************************************************************)
InitBoth ==
    /\ pc = "create"
    /\ WaitInit
    /\ use_sse \in BOOLEAN
    /\ on_progress \in BOOLEAN
    /\ poll_interval \in PollIntervals
    /\ client_headers = ClientHeaders
    /\ waits = <<AsyncStart(use_sse, on_progress, poll_interval)>>
    /\ fn = "both"
    /\ arg = None
    /\ ret = None

BothCreate ==
    /\ \E resp \in WaitResponses :
         /\ CreateStep(resp)
         /\ waits' = <<Async_create_and_wait(waits[1], resp)>>
    /\ UNCHANGED pureVars

BothOpen ==
    /\ \E resp \in WaitResponses :
         /\ SseOpenStep(resp)
         /\ waits' = <<Async_sse_open(waits[1], resp)>>
    /\ UNCHANGED pureVars

BothErrorBody ==
    /\ \E arrived \in BOOLEAN :
         /\ SseErrorBodyStep(arrived)
         /\ waits' = <<Async_sse_error_body(waits[1], arrived)>>
    /\ UNCHANGED pureVars

BothEvent ==
    /\ \E run \in ParsedEventRuns, cb_exc \in CallbackOutcomes :
         /\ SseHandle(run, cb_exc)
         /\ waits' = <<Async_sse_event(waits[1], run, cb_exc)>>
    /\ UNCHANGED pureVars

BothEnd ==
    /\ SseEndStep
    /\ waits' = <<Async_leave_body(waits[1], [kind |-> "ended"])>>
    /\ UNCHANGED pureVars

BothDrop ==
    /\ SseDropStep
    /\ waits' = <<Async_leave_body(waits[1],
                                   [kind |-> "raise", exc |-> BuiltinExc("TransportError")])>>
    /\ UNCHANGED pureVars

BothClose ==
    /\ SseCloseStep
    /\ waits' = <<Async_sse_close(waits[1])>>
    /\ UNCHANGED pureVars

BothSleep ==
    /\ PollSleepStep
    /\ waits' = <<Async_poll_sleep(waits[1])>>
    /\ UNCHANGED pureVars

BothGet ==
    /\ \E resp \in WaitResponses, cb_exc \in CallbackOutcomes :
         /\ PollGetStep(resp, cb_exc)
         /\ waits' = <<Async_poll_get(waits[1], resp, cb_exc)>>
    /\ UNCHANGED pureVars

BothAbandon ==
    /\ \E exc \in AbandonExceptions, released \in BOOLEAN :
         /\ AbandonStep(exc, released)
         /\ waits' = <<Async_abandon(waits[1], exc, released)>>
    /\ UNCHANGED pureVars

NextBoth ==
    \/ BothCreate
    \/ BothOpen
    \/ BothErrorBody
    \/ BothEvent
    \/ BothEnd
    \/ BothDrop
    \/ BothClose
    \/ BothSleep
    \/ BothGet
    \/ BothAbandon

SpecBoth == InitBoth /\ [][NextBoth]_vars

(***************************************************************************)
(* The line loop of _sse_connect as a pure function: every sequence of at  *)
(* most MaxReadLines raw lines, blank lines included, is given to it once, *)
(* with and without a progress callback, the callback returning or         *)
(* raising.  A raw line may still carry its line ending.                   *)
(***************************************************************************)
\* The line loop of _sse_connect over the raw lines of one response, with a
\* progress callback or without one (has_callback); cb_exc is what the
\* callback raises when it is invoked.  A blank line with lines in buf
\* parses them as an event and moves the cursor.  A result event with a
\* payload ends the loop with what _result_from_sse_data returns or raises.
\* A status or transcript event with a payload, when there is a callback,
\* has the snapshot built and the callback invoked, and ends the loop when
\* either raises.  The lines after the one that ends the loop stay unread.
\* When the lines are exhausted the function returns no result, and what
\* is in buf is dropped with it.  called counts the callback invocations.
RECURSIVE ReadLines(_, _, _, _, _, _, _)
ReadLines(lines, buf, events, cursor, called, has_callback, cb_exc) ==
    IF lines = <<>>
    THEN [events |-> events, buf |-> buf, unread |-> <<>>, called |-> called,
          result |-> Return(None), last_event_id |-> cursor]
    ELSE IF RStripLineEnd(Head(lines)) # <<>>
    THEN ReadLines(Tail(lines), Append(buf, RStripLineEnd(Head(lines))), events, cursor,
                   called, has_callback, cb_exc)
    ELSE IF buf # <<>>
    THEN LET event == _parse_sse_event(buf)
             moved == IF Has(event, "id") /\ event["id"] # <<>>
                      THEN Some(event["id"]) ELSE cursor
             event_type == IF Has(event, "event") THEN Some(event["event"]) ELSE None
             left(result, n) ==
                 [events |-> Append(events, event), buf |-> <<>>, unread |-> Tail(lines),
                  called |-> n, result |-> result, last_event_id |-> moved]
         IN  IF event_type = Some(EventResult) /\ Has(event, "data")
             THEN left(_result_from_sse_data(event["data"]), called)
             ELSE IF /\ event_type \in {Some(EventStatus), Some(EventTranscript)}
                     /\ Has(event, "data")
                     /\ has_callback
             THEN LET progress == _progress_from_sse_data(event["data"])
                  IN  IF progress.kind = "raise"
                      THEN left(progress, called)
                      ELSE IF cb_exc # None
                      THEN left(Raise(cb_exc[1]), called + 1)
                      ELSE ReadLines(Tail(lines), <<>>, Append(events, event), moved,
                                     called + 1, has_callback, cb_exc)
             ELSE ReadLines(Tail(lines), <<>>, Append(events, event), moved,
                            called, has_callback, cb_exc)
    ELSE ReadLines(Tail(lines), buf, events, cursor, called, has_callback, cb_exc)

BlankLine == <<>>
BlankLineCr == <<"\r">>

ParseLines ==
    { BlankLine, BlankLineCr, LineId2, LineEventResult, LineEventStatus,
      LineData(JsonCancelledHead), LineData(JsonCancelledTail), LineComment }

InitLines ==
    /\ pc = "idle"
    /\ WaitInit
    /\ use_sse = TRUE
    /\ on_progress \in BOOLEAN
    /\ poll_interval = DEFAULT_POLL_INTERVAL
    /\ client_headers = ClientHeaders
    /\ waits = NoWaits
    /\ fn = "read_lines"
    /\ arg \in SeqsUpTo(ParseLines, MaxReadLines)
    /\ ret = None

ApplyReadLines ==
    /\ fn = "read_lines"
    /\ ret = None
    /\ \E cb_exc \in CallbackOutcomes :
         ret' = Some(ReadLines(arg, <<>>, <<>>, None, 0, on_progress, cb_exc))
    /\ UNCHANGED <<pc, clientVars, argVars, abandoned, outcome, streamVars, nCreate, lastCreate, pollVars, cbVars,
                   streamTerminalResult, streamFailure, fn, arg>>

NextLines == ApplyReadLines

SpecLines == InitLines /\ [][NextLines]_vars

(***************************************************************************)
(* One stream connection read line by line: arg holds the lines the        *)
(* gateway still sends before it closes the connection, ret holds buf.     *)
(* The wait stands where the first stream request was answered with 200.   *)
(***************************************************************************)
ConnectionLines ==
    { BlankLine, BlankLineCr, LineId1, LineId2, LineEventResult, LineEventStatus,
      LineData(JsonCompleted), LineData(JsonInProgress) }

InitConnection ==
    /\ pc = "sse_read"
    /\ use_sse = TRUE
    /\ on_progress \in BOOLEAN
    /\ poll_interval = DEFAULT_POLL_INTERVAL
    /\ outcome = Pending
    /\ attempt = 0
    /\ last_event_id = None
    /\ conn_last_event_id = None
    /\ connOpen = 1
    /\ stream_resp = None
    /\ closing = None
    /\ eventsRead = 0
    /\ opens = <<None>>
    /\ nCreate = 1
    /\ lastCreate = Some(CreatedExchange)
    /\ nSleep = 0
    /\ lastSleep = 0
    /\ nGet = 0
    /\ nCb = 0
    /\ lastCb = None
    /\ cbRaisedAt = "none"
    /\ streamTerminalResult = FALSE
    /\ streamFailure = "none"
    /\ lastGet = None
    /\ pollTerminal = None
    /\ firstConn = None
    /\ nPollCb = 0
    /\ nNonTerminal = 0
    /\ abandoned = FALSE
    /\ client_headers = ClientHeaders
    /\ waits = NoWaits
    /\ fn = "sse_connect_lines"
    /\ arg \in SeqsUpTo(ConnectionLines, MaxStreamLines)
    /\ ret = <<>>

\* One iteration of the line loop: the line ending is stripped from the raw
\* line; a non-blank line is appended to buf; a blank line has the event in
\* buf handled and buf cleared, or does nothing when buf is empty.
ConnectionLine ==
    /\ fn = "sse_connect_lines"
    /\ pc = "sse_read"
    /\ arg # <<>>
    /\ arg' = Tail(arg)
    /\ IF RStripLineEnd(Head(arg)) # <<>>
       THEN /\ ret' = Append(ret, RStripLineEnd(Head(arg)))
            /\ UNCHANGED <<pc, client_headers, argVars, abandoned, outcome, streamVars, nCreate,
                           lastCreate, pollVars, cbVars, streamTerminalResult, streamFailure>>
       ELSE IF ret # <<>>
       THEN /\ ret' = <<>>
            /\ \E cb_exc \in CallbackOutcomes :
                 SseHandle([buf_empty |-> FALSE, event |-> _parse_sse_event(ret)], cb_exc)
       ELSE /\ ret' = ret
            /\ UNCHANGED <<pc, client_headers, argVars, abandoned, outcome, streamVars, nCreate,
                           lastCreate, pollVars, cbVars, streamTerminalResult, streamFailure>>
    /\ UNCHANGED <<fn, waits>>

\* Variant: the lines left in buf when the connection closes are handled as
\* an event before _sse_connect returns.
ConnectionClose_Flushes ==
    /\ fn = "sse_connect_lines"
    /\ pc = "sse_read"
    /\ arg = <<>>
    /\ IF ret # <<>>
       THEN /\ ret' = <<>>
            /\ SseHandle([buf_empty |-> FALSE, event |-> _parse_sse_event(ret)], None)
       ELSE /\ ret' = ret
            /\ SseEndStep
    /\ UNCHANGED <<fn, arg, waits>>

\* The lines are exhausted: the loop ends and _sse_connect returns
\* (None, last_event_id), whatever is in buf.
ConnectionClose ==
    /\ fn = "sse_connect_lines"
    /\ pc = "sse_read"
    /\ arg = <<>>
    /\ SseEndStep
    /\ UNCHANGED <<pureVars, waits>>

\* The exit of the with statement has closed the response.
ConnectionExit ==
    /\ fn = "sse_connect_lines"
    /\ SseCloseStep
    /\ UNCHANGED <<pureVars, waits>>

NextConnection ==
    \/ ConnectionLine
    \/ ConnectionClose
    \/ ConnectionExit

SpecConnection == InitConnection /\ [][NextConnection]_vars

(***************************************************************************)
(* Properties.                                                             *)
(***************************************************************************)
\* The terminal call states of the data model.
TerminalStates == {"completed", "failed", "cancelled"}

StreamPhase == {"sse_connect", "sse_error_body", "sse_read", "sse_close"}

HasErrorFields(exc) == {"code", "message", "status"} \subseteq DOMAIN exc

\* C1: a value returned by the wait is a terminal result, and once the wait
\* has returned there is no further stream request, interval wait, status
\* fetch or callback.
ReturnsOnlyTerminal ==
    /\ [](outcome.kind = "return" =>
            /\ pc = "done"
            /\ outcome.value.cls = "CallResult"
            /\ outcome.value.status \in TerminalStates)
    /\ [][outcome.kind = "return" => UNCHANGED <<outcome, opens, nSleep, nGet, nCb>>]_vars

\* C1: the wait has returned a value.
WaitReturned == pc = "done" /\ outcome.kind = "return"

\* C2: when the stream delivers a result event with a terminal-status
\* payload, the wait returns a result with that status and no status fetch
\* is ever issued.
StreamResultSkipsPolling ==
    (streamTerminalResult /\ ~abandoned) =>
        /\ pc \in {"sse_close", "done"}
        /\ pc = "done" =>
              /\ outcome.kind = "return"
              /\ outcome.value.status \in TerminalStates
        /\ nGet = 0

\* A step taken on the stream path, other than the caller abandoning the
\* wait, leaves the wait pending or returns.  A
\* step that records a stream failure leads to the start of polling when the
\* failure is an HTTP error or a bad payload or no reconnect is left, and to
\* the reconnect or to polling otherwise.
StreamStepDoesNotFail ==
    (pc \in StreamPhase /\ ~abandoned') =>
        /\ (outcome' = Pending \/ outcome'.kind = "return")
        /\ (streamFailure' # streamFailure =>
              IF streamFailure' \in {"http_error", "payload"} \/ attempt = 1
              THEN pc' = "poll_sleep" /\ nSleep' = 0 /\ nGet' = 0
              ELSE pc' \in {"sse_connect", "poll_sleep"})

\* C3: no step of the stream path fails the wait.  A failed HTTP status on
\* the stream open, a payload that cannot be used, and a failure or stream
\* end with no reconnect left put the waiter at the start of the polling
\* fallback; a transport failure or stream end on the first attempt puts it
\* at the reconnect.  An error of the wait comes from create or from polling,
\* unless the caller abandoned the wait.
StreamFailuresFallBack ==
    /\ []((streamFailure # "none" /\ nSleep = 0 /\ ~abandoned) =>
            /\ outcome = Pending
            /\ pc \in StreamPhase \cup {"poll_sleep"}
            /\ pc \in StreamPhase => attempt = 1 /\ Len(opens) <= 2)
    /\ [](outcome.kind = "raise" =>
            \/ lastCreate # None /\ lastCreate[1].result = outcome
            \/ nGet >= 1
            \/ abandoned)
    /\ [][StreamStepDoesNotFail]_vars

\* C3: the stream path has failed for good (transport failure with the
\* reconnect used up) and the waiter stands at the start of polling.
StreamFailedIntoPolling ==
    /\ pc = "poll_sleep"
    /\ nSleep = 0
    /\ streamFailure = "transport"
    /\ Len(opens) = 2
    /\ outcome = Pending

\* C4: a failed status fetch (HTTP status >= 400 or empty body) ends the
\* wait with the error get() raised, and nothing happens afterwards.
PollFailurePropagates ==
    /\ []((/\ lastGet # None
           /\ lastGet[1].resp.kind = "response"
           /\ lastGet[1].resp.status_code >= 400 \/ lastGet[1].resp.content = "empty") =>
            /\ pc = "done"
            /\ outcome.kind = "raise"
            /\ outcome = lastGet[1].result
            /\ lastGet[1].resp.content # "garbage" => HasErrorFields(outcome.exc)
            /\ (lastGet[1].resp.status_code >= 400 /\ lastGet[1].resp.content # "garbage") =>
                  outcome.exc.status \in {lastGet[1].resp.status_code, 429}
            /\ (lastGet[1].resp.status_code < 400 /\ lastGet[1].resp.content = "empty") =>
                  outcome.exc.code = "EMPTY_RESPONSE")
    /\ [][(lastGet # None /\ lastGet[1].result.kind = "raise") =>
            UNCHANGED <<outcome, opens, nSleep, nGet, nCb>>]_vars

\* C4: polling fetched a status, got HTTP 500, and the wait has failed.
PollFailed ==
    /\ pc = "done"
    /\ nGet = 2
    /\ lastGet # None
    /\ lastGet[1].resp.kind = "response"
    /\ lastGet[1].resp.status_code = 500
    /\ outcome.kind = "raise"

\* C5: a wait that has ended has returned a terminal result or raised an
\* error carrying code, message and status.
EndsWithResultOrTypedError ==
    pc = "done" =>
        \/ /\ outcome.kind = "return"
           /\ outcome.value.cls = "CallResult"
           /\ outcome.value.status \in TerminalStates
        \/ /\ outcome.kind = "raise"
           /\ HasErrorFields(outcome.exc)

\* C6: when the progress callback raises, on either path, the wait ends
\* with that exception.
CallbackErrorPropagates ==
    cbRaisedAt # "none" =>
        /\ pc = "done"
        /\ outcome.kind = "raise"
        /\ Some(outcome.exc) \in CallbackOutcomes

\* C7: a failed create (HTTP status >= 400, empty body, or no call_id) ends
\* create_and_wait with that error after one create request and with no
\* stream request, interval wait or status fetch.
CreateFailurePropagates ==
    /\ nCreate <= 1
    /\ (/\ lastCreate # None
        /\ lastCreate[1].resp.kind = "response"
        /\ \/ lastCreate[1].resp.status_code >= 400
           \/ lastCreate[1].resp.content = "empty"
           \/ lastCreate[1].resp.content = "json" /\ ~Has(lastCreate[1].resp.json, "call_id")) =>
            /\ pc = "done"
            /\ outcome.kind = "raise"
            /\ outcome = lastCreate[1].result
            /\ nCreate = 1
            /\ opens = <<>>
            /\ nSleep = 0
            /\ nGet = 0
            /\ nCb = 0

\* C7: the create request was answered with HTTP 429 and the call has failed.
CreateFailed ==
    /\ pc = "done"
    /\ nCreate = 1
    /\ lastCreate # None
    /\ lastCreate[1].resp.kind = "response"
    /\ lastCreate[1].resp.status_code = 429
    /\ outcome.kind = "raise"
    /\ outcome.exc.type = "RateLimitError"

\* C8: when polling receives a terminal status, the wait returns the
\* result built from that response, with its duration and transcript.
PollTerminalReturned ==
    pollTerminal # None =>
        /\ pc = "done"
        /\ outcome.kind = "return"
        /\ outcome.value.status = pollTerminal[1]["status"]
        /\ outcome.value.duration_seconds = DictGet(pollTerminal[1], "duration_seconds", 0)
        /\ Len(outcome.value.transcript) = Len(DictGet(pollTerminal[1], "transcript", <<>>))

\* C9: for a non-empty body with a terminal status, parse_call_response
\* yields a CallResult with that status and defaults for missing fields.
ParseTerminalYieldsResult ==
    (/\ fn = "parse_call_response"
     /\ ret # None
     /\ arg # None
     /\ DOMAIN arg[1] # {}
     /\ DictGet(arg[1], "status", "") \in TerminalStates) =>
        /\ ret[1].kind = "return"
        /\ ret[1].value.cls = "CallResult"
        /\ ret[1].value.status = arg[1]["status"]
        /\ ret[1].value.duration_seconds = DictGet(arg[1], "duration_seconds", 0)
        /\ ret[1].value.credits_charged = DictGet(arg[1], "credits_charged", 0)
        /\ Len(ret[1].value.transcript) = Len(DictGet(arg[1], "transcript", <<>>))

\* C10: for a non-empty body whose status is not terminal (or is missing),
\* parse_call_response yields a CallStatus with that status, never a
\* CallResult; an empty body raises the EMPTY_RESPONSE error.
ParseNonTerminalYieldsStatus ==
    (fn = "parse_call_response" /\ ret # None) =>
        /\ (arg = None \/ DOMAIN arg[1] = {}) =>
              /\ ret[1].kind = "raise"
              /\ ret[1].exc.type = "PineVoiceError"
              /\ ret[1].exc.code = "EMPTY_RESPONSE"
        /\ (/\ arg # None
            /\ DOMAIN arg[1] # {}
            /\ DictGet(arg[1], "status", "") \notin TerminalStates) =>
              /\ ret[1].kind = "return"
              /\ ret[1].value.cls = "CallStatus"
              /\ ret[1].value.status = DictGet(arg[1], "status", "")
              /\ ret[1].value.call_id = DictGet(arg[1], "call_id", "")

\* C10: a body with status in_progress and nothing else was parsed into a
\* CallStatus.
ParsedInProgress ==
    /\ fn = "parse_call_response"
    /\ arg = Some([status |-> "in_progress"])
    /\ ret # None
    /\ ret[1].kind = "return"
    /\ ret[1].value.cls = "CallStatus"
    /\ ret[1].value.duration_seconds = None

\* The error code a response body carries, UNKNOWN when it has no error
\* object or the error object has no code.
BodyErrorCode(body) ==
    IF body # None /\ Has(body[1], "error") /\ Has(body[1]["error"], "code")
    THEN body[1]["error"]["code"]
    ELSE "UNKNOWN"

\* The error kind of the first rule that matches, in the order
\* authentication, rate limit, call error, generic.
FirstMatchingRule(http_status, code) ==
    IF http_status = 401 \/ code \in {"TOKEN_EXPIRED", "AUTH_REQUIRED"} THEN "AuthError"
    ELSE IF http_status = 429 \/ code = "RATE_LIMITED" THEN "RateLimitError"
    ELSE IF code \in {"INVALID_PHONE", "DND_BLOCKED", "POLICY_VIOLATION",
                      "INSUFFICIENT_DETAIL", "SUBSCRIPTION_REQUIRED",
                      "INSUFFICIENT_CREDITS", "ACCESS_DENIED", "NOT_FOUND"} THEN "CallError"
    ELSE "PineVoiceError"

Classified == fn = "raise_api_error" /\ ret # None

\* C11: for every HTTP status of 400 or more and every error code, the
\* classification raises, and the error raised is the one of the first
\* matching rule in the order authentication (status 401 or code
\* TOKEN_EXPIRED / AUTH_REQUIRED), rate limit (status 429 or code
\* RATE_LIMITED), call error (code in the fixed set), generic; a body
\* without an error object is classified with the code UNKNOWN.
ClassifiesByFirstMatchingRule ==
    Classified =>
        /\ ret[1].kind = "raise"
        /\ ret[1].exc.type = FirstMatchingRule(arg.http_status, BodyErrorCode(arg.body))
        /\ ret[1].exc.code = BodyErrorCode(arg.body)

\* C11: a response that matches both the authentication rule (by its code)
\* and the rate-limit rule (by its status) has been classified.
ClassifiedOverlappingRules ==
    /\ Classified
    /\ arg.http_status = 429
    /\ BodyErrorCode(arg.body) = "AUTH_REQUIRED"
    /\ ret[1].kind = "raise"
    /\ ret[1].exc.type = "AuthError"

\* C12 as stated: status 429 with any error code yields a RateLimitError
\* whose status is 429, and status 401 with any error code yields an
\* AuthError.
Status429AlwaysRateLimit ==
    Classified =>
        /\ (arg.http_status = 429 =>
              ret[1].kind = "raise" /\ ret[1].exc.type = "RateLimitError"
              /\ ret[1].exc.status = 429)
        /\ (arg.http_status = 401 =>
              ret[1].kind = "raise" /\ ret[1].exc.type = "AuthError")

\* C12, amended: status 429 with any error code other than TOKEN_EXPIRED and
\* AUTH_REQUIRED yields a RateLimitError whose status is 429; status 429
\* with one of these two codes yields an AuthError; status 401 with any
\* error code yields an AuthError.
Status429RateLimitUnlessAuthCode ==
    Classified =>
        /\ (arg.http_status = 429 =>
              /\ ret[1].kind = "raise"
              /\ IF BodyErrorCode(arg.body) \in {"TOKEN_EXPIRED", "AUTH_REQUIRED"}
                 THEN ret[1].exc.type = "AuthError"
                 ELSE ret[1].exc.type = "RateLimitError" /\ ret[1].exc.status = 429)
        /\ (arg.http_status = 401 =>
              ret[1].kind = "raise" /\ ret[1].exc.type = "AuthError")

\* C12: a response with status 429 and a code of the call-error set has been
\* classified as a rate-limit error.
Classified429AsRateLimit ==
    /\ Classified
    /\ arg.http_status = 429
    /\ BodyErrorCode(arg.body) = "INVALID_PHONE"
    /\ ret[1].kind = "raise"
    /\ ret[1].exc.type = "RateLimitError"
    /\ ret[1].exc.status = 429

\* A step that takes the waiter from one action to a different place.
AfterCreateGoesTo(place) == pc = "create" /\ pc' # "done" => pc' = place

UseSseStepChoosesPath == AfterCreateGoesTo(IF use_sse THEN "sse_connect" ELSE "poll_sleep")

\* C13: with use_sse false no stream connection is ever opened and the
\* waiter goes from create to the polling loop; with use_sse true the waiter
\* goes from create to the stream open, and a stream request has been issued
\* before any interval wait or status fetch.
UseSseChoosesPath ==
    /\ [](~use_sse => opens = <<>> /\ pc \notin StreamPhase)
    /\ []((use_sse /\ (nSleep > 0 \/ nGet > 0)) => Len(opens) >= 1)
    /\ []((use_sse /\ pc \in {"poll_sleep", "poll_get"}) => Len(opens) >= 1)
    /\ [][UseSseStepChoosesPath]_vars

\* C13: a wait with use_sse false has fetched the status twice.
PolledWithoutStream ==
    /\ ~use_sse
    /\ nCreate = 1
    /\ nGet = 2
    /\ opens = <<>>

\* The snapshot the polling loop owes the callback for a status response.
SnapshotOf(json) ==
    [call_id |-> DictGet(json, "call_id", ""),
     status |-> DictGet(json, "status", ""),
     duration_seconds |-> IF Has(json, "duration_seconds")
                          THEN Some(json["duration_seconds"]) ELSE None]

\* The last status fetch was answered with a non-terminal status: a body
\* that is not empty and whose status, if any, is not terminal.
LastGetNonTerminal ==
    /\ lastGet # None
    /\ lastGet[1].resp.kind = "response"
    /\ lastGet[1].resp.status_code < 400
    /\ lastGet[1].resp.content = "json"
    /\ DOMAIN lastGet[1].resp.json # {}
    /\ DictGet(lastGet[1].resp.json, "status", "") \notin TerminalStates

\* C14: during polling the callback, when supplied, has been invoked once
\* for each non-terminal status response, so the number of poll callbacks
\* equals the number of non-terminal responses at every interval wait and
\* status fetch; its last snapshot carries the call id, state and duration
\* of the last response; it is not invoked for a terminal response or a
\* failed fetch, and never without a callback.
PollCallbackPerNonTerminal ==
    /\ nPollCb = IF on_progress THEN nNonTerminal ELSE 0
    /\ nPollCb <= nGet
    /\ (pc \in {"poll_sleep", "poll_get"} /\ on_progress) => nPollCb = nGet
    /\ (LastGetNonTerminal /\ on_progress) =>
          /\ lastCb # None
          /\ lastCb[1].call_id = SnapshotOf(lastGet[1].resp.json).call_id
          /\ lastCb[1].status = SnapshotOf(lastGet[1].resp.json).status
          /\ lastCb[1].duration_seconds = SnapshotOf(lastGet[1].resp.json).duration_seconds
    /\ (lastGet # None /\ ~LastGetNonTerminal) => nPollCb < nGet

\* C14: polling saw two non-terminal responses, reported both, and the
\* third fetch failed without a callback.
PolledTwiceWithCallback ==
    /\ on_progress
    /\ nGet = 3
    /\ nNonTerminal = 2
    /\ nPollCb = 2
    /\ lastCb # None
    /\ lastCb[1].duration_seconds = Some(7)

\* Nothing is requested, waited for or reported in a step.
NoActivity == UNCHANGED <<opens, nCreate, nSleep, nGet, nCb>>

NothingAfterAbandon == (abandoned \/ abandoned') => NoActivity

\* C15: when the caller abandons a pending wait (task cancelled or blocking
\* call interrupted), on the stream path or while polling, nothing is left
\* to do but the close of the open stream response; the wait ends with the
\* cancellation, and when it has ended the stream connection is released;
\* the abandoning step and every later step open no stream connection, wait
\* no interval, fetch no status and invoke no callback; a cancellation on
\* the stream path does not lead to the polling fallback.
AbandonStopsEverything ==
    /\ [](abandoned => pc \in {"sse_close", "done"})
    /\ []((abandoned /\ pc = "done") =>
            /\ connOpen = 0
            /\ outcome.kind = "raise"
            /\ outcome.exc.type \in {"CancelledError", "KeyboardInterrupt"})
    /\ [][NothingAfterAbandon]_vars

\* C16: when the first stream connection has parsed events carrying ids and
\* then fails at transport level, and the reconnect delivers a result
\* event, the reconnect request carries as Last-Event-Id the id of the last
\* event parsed on the failed connection.
ReconnectResumesFromCursor ==
    (/\ Len(opens) = 2
     /\ firstConn # None
     /\ firstConn[1].how = "transport"
     /\ firstConn[1].cursor # None
     /\ streamTerminalResult) =>
        opens[2] = firstConn[1].cursor

\* A step in which a stream attempt ends in the way named how, without the
\* wait returning.
StreamAttemptEnds(how) ==
    /\ pc \in StreamPhase
    /\ pc' \notin {"sse_error_body", "sse_read", "sse_close"}
    /\ streamFailure' = how
    /\ outcome'.kind # "return"

CleanEndStartsPolling == StreamAttemptEnds("ended") => pc' = "poll_sleep"

\* C17 as stated: when a stream connection ends cleanly without a result
\* event, the waiter goes to the polling fallback and opens no further
\* stream connection.
CleanEndGoesToPolling == [][CleanEndStartsPolling]_vars

CleanEndReconnectsOnce ==
    StreamAttemptEnds("ended") =>
        IF attempt = 0
        THEN pc' = "sse_connect" /\ attempt' = 1 /\ last_event_id' = conn_last_event_id
             /\ nSleep' = 0 /\ nGet' = 0
        ELSE pc' = "poll_sleep" /\ outcome' = Pending /\ nSleep' = 0 /\ nGet' = 0

\* C17, amended: when the first stream connection of a wait ends cleanly
\* without a result event, the waiter opens a second stream connection,
\* which carries the last event id received as Last-Event-Id; when the
\* second connection ends cleanly, the waiter goes to the polling fallback
\* and its next request is a status fetch after the interval wait.
CleanEndReconnectsThenPolls ==
    /\ [][CleanEndReconnectsOnce]_vars
    /\ []((Len(opens) >= 2 /\ firstConn # None /\ firstConn[1].how = "ended") =>
            opens[2] = firstConn[1].cursor)
    /\ []((streamFailure = "ended" /\ pc \in {"poll_sleep", "poll_get"}) =>
            Len(opens) = 2 /\ attempt = 1)

\* C17: both stream connections ended cleanly, the second was opened with
\* the cursor of the first, and the waiter is about to fetch the status.
CleanEndTwiceThenPolling ==
    /\ firstConn # None
    /\ firstConn[1].how = "ended"
    /\ firstConn[1].cursor # None
    /\ Len(opens) = 2
    /\ opens[2] = firstConn[1].cursor
    /\ streamFailure = "ended"
    /\ pc = "poll_get"
    /\ nGet = 0

TransportFailureReconnectsOnce ==
    StreamAttemptEnds("transport") =>
        IF attempt = 0
        THEN pc' = "sse_connect" /\ attempt' = 1 /\ outcome' = Pending
        ELSE pc' = "poll_sleep" /\ attempt' = 1 /\ outcome' = Pending

\* C18: the stream endpoint is opened at most twice in one wait; a
\* transport failure on the first connection is followed by the one
\* reconnect, a transport failure on the second by the polling fallback.
AtMostTwoStreamConnections ==
    /\ [](Len(opens) <= 2 /\ attempt <= 1 /\ Len(opens) <= attempt + 1)
    /\ [][TransportFailureReconnectsOnce]_vars

\* C18: both stream connections failed at transport level and the waiter
\* is polling.
TransportFailedTwice ==
    /\ firstConn # None
    /\ firstConn[1].how = "transport"
    /\ streamFailure = "transport"
    /\ attempt = 1
    /\ Len(opens) = 2
    /\ pc = "poll_get"

\* The ways a stream attempt fails other than at transport level: an HTTP
\* status >= 400 on the open, a payload that cannot be used, a callback that
\* raises.
NonTransportFailures == {"http_error", "payload", "callback"}

NonTransportFailureStartsPolling ==
    \A how \in NonTransportFailures :
        StreamAttemptEnds(how) =>
            pc' = "poll_sleep" /\ attempt' = attempt /\ outcome' = Pending

\* C19: a stream failure that is not transport-level (HTTP status >= 400 on
\* the open, payload that is not JSON, result event with a non-terminal
\* payload) leads to the polling fallback without a reconnect; when it
\* happens on the first connection, that is the only stream connection of
\* the wait.
NonTransportFailureSkipsReconnect ==
    /\ []((firstConn # None /\ firstConn[1].how \in NonTransportFailures) =>
            /\ Len(opens) = 1
            /\ attempt = 0
            /\ pc \in {"poll_sleep", "poll_get", "done"})
    /\ [](streamFailure \in NonTransportFailures => pc \notin StreamPhase)
    /\ [][NonTransportFailureStartsPolling]_vars

\* C19: the first stream connection delivered a result event whose payload
\* is not JSON, and the waiter is polling after one stream connection.
BadJsonWentToPolling ==
    /\ firstConn # None
    /\ firstConn[1].how = "payload"
    /\ firstConn[1].exc = "JSONDecodeError"
    /\ Len(opens) = 1
    /\ pc = "poll_get"
    /\ nSleep = 1

PollingHasBegun == nSleep >= 1 \/ nGet >= 1 \/ pc \in {"poll_sleep", "poll_get"}

NoStreamOnceCommitted == PollingHasBegun => (opens' = opens /\ pc' \notin StreamPhase)

\* C20: once polling has begun (its first interval wait or status fetch has
\* happened) no stream connection is opened for the rest of the wait.
NoStreamAfterPolling ==
    /\ [](pc \in StreamPhase => nSleep = 0 /\ nGet = 0)
    /\ [](PollingHasBegun => connOpen = 0)
    /\ [][NoStreamOnceCommitted]_vars

\* C20: a wait that started on the stream has fallen back and fetched the
\* status twice, and polling goes on.
PollingAfterStream ==
    /\ use_sse
    /\ Len(opens) >= 1
    /\ nGet = 2
    /\ pc = "poll_sleep"

FetchFollowsSleep ==
    nGet' # nGet =>
        /\ pc = "poll_get"
        /\ nGet' = nGet + 1
        /\ nSleep = nGet + 1
        /\ lastSleep = poll_interval

SleepFollowsFetch == nSleep' # nSleep => nSleep' = nSleep + 1 /\ nSleep = nGet

\* C21: in the polling path every status fetch is immediately preceded by
\* a wait of the configured poll interval, the first fetch included; two
\* fetches never happen without a wait between them, and the number of
\* waits equals the number of fetches (one more while the fetch that follows
\* a wait is still to come).
SleepBeforeEveryGet ==
    /\ [](nGet <= nSleep /\ nSleep <= nGet + 1)
    /\ [](nSleep = nGet + 1 => (pc = "poll_get" \/ abandoned))
    /\ [](nSleep >= 1 => lastSleep = poll_interval)
    /\ [][FetchFollowsSleep]_vars
    /\ [][SleepFollowsFetch]_vars

\* C21: after the stream path failed, polling with a one-second interval
\* has waited and fetched three times.
PolledThreeTimesAfterStream ==
    /\ use_sse
    /\ poll_interval = 1
    /\ Len(opens) >= 1
    /\ nSleep = 3
    /\ nGet = 3
    /\ lastSleep = 1

OpensOnlyWhenNoneOpen ==
    /\ opens' # opens => connOpen = 0
    /\ nSleep' # nSleep => connOpen = 0
    /\ (pc' = "done" /\ pc # "done") => connOpen' = 0

\* C22: at most one stream connection is open at any point of a wait, and
\* the connection of a stream attempt is closed on every exit from the
\* attempt: one is open only while its lines are read and while its
\* response is being closed, and none is open when the reconnect is opened,
\* when the first interval wait begins, or when the wait has ended.
ConnectionIsScoped ==
    /\ [](connOpen <= 1)
    /\ [](connOpen = 1 <=> pc \in {"sse_error_body", "sse_read", "sse_close"})
    /\ [][OpensOnlyWhenNoneOpen]_vars

\* An exchange (a transport answer and what the operation made of it) whose
\* response is not 2xx has ended in a classified error.
ClassifiedUnlessSuccess(exchange) ==
    (/\ exchange # None
     /\ exchange[1].resp.kind = "response"
     /\ exchange[1].resp.status_code \notin 200..299) =>
        /\ exchange[1].result.kind = "raise"
        /\ HasErrorFields(exchange[1].result.exc)
        /\ exchange[1].result.exc.type \in
              {"AuthError", "RateLimitError", "CallError", "PineVoiceError"}

\* C23: on create, get-status and stream open, every response whose HTTP
\* status is not 2xx is turned into a classified error, and only a 2xx
\* response is parsed as a success body or read as an event stream.
NonSuccessIsClassified ==
    /\ ClassifiedUnlessSuccess(lastCreate)
    /\ ClassifiedUnlessSuccess(lastGet)

\* The event id the stream of each wait sends.
OwnEventId(i) == IF i = 1 THEN <<"1">> ELSE <<"2">>

StreamRequestsOf(i) == SelectSeq(waits[i].requests, LAMBDA r : r.op = "stream")

\* The headers of request r of wait i are the client's own, plus Accept and
\* possibly a Last-Event-Id with the wait's own event id on a stream request.
RequestIsOwn(i, r) ==
    IF r.op = "get"
    THEN r.headers = ClientHeaders
    ELSE /\ DOMAIN r.headers \ {"Last-Event-Id"} = DOMAIN ClientHeaders \cup {"Accept"}
         /\ \A k \in DOMAIN ClientHeaders : r.headers[k] = ClientHeaders[k]
         /\ Has(r.headers, "Last-Event-Id") => r.headers["Last-Event-Id"] = OwnEventId(i)

\* C24: two waits interleaved on one client do not affect each other: the
\* client's shared headers are never modified, every request carries them
\* unchanged (a stream request adds Accept and at most a Last-Event-Id),
\* the Last-Event-Id and the cursor of a wait are an event id of its own
\* stream, the first stream request of each wait has no Last-Event-Id, and
\* each wait reconnects at most once whatever the other does.
TwoWaitsAreIsolated ==
    fn = "two_waits" =>
        /\ client_headers = ClientHeaders
        /\ \A i \in Waits :
              /\ \A n \in 1..Len(waits[i].requests) : RequestIsOwn(i, waits[i].requests[n])
              /\ waits[i].last_event_id \in {None, Some(OwnEventId(i))}
              /\ waits[i].conn_last_event_id \in {None, Some(OwnEventId(i))}
              /\ waits[i].attempt <= 1
              /\ Len(StreamRequestsOf(i)) <= 2
              /\ Len(StreamRequestsOf(i)) >= 1 =>
                    ~Has(StreamRequestsOf(i)[1].headers, "Last-Event-Id")

\* C24: both waits have reconnected, each with its own event id, and have
\* gone on to the status fetch.
BothWaitsReconnected ==
    /\ fn = "two_waits"
    /\ \A i \in Waits :
          /\ waits[i].pc = "done"
          /\ Len(StreamRequestsOf(i)) = 2
          /\ LastEventIdOf(StreamRequestsOf(i)[2].headers) = Some(OwnEventId(i))

\* The waiter is still reading the connection it was reading before the
\* step: no return, no reconnect, no status fetch, no interval wait.
KeepsReading ==
    /\ pc' = "sse_read"
    /\ outcome' = Pending
    /\ connOpen' = 1
    /\ closing' = None
    /\ opens' = opens
    /\ attempt' = attempt
    /\ streamFailure' = streamFailure
    /\ nSleep' = nSleep
    /\ nGet' = nGet

\* The snapshot the callback got is the one the payload d describes.
SnapshotFromPayload(d) ==
    /\ lastCb' # None
    /\ LET snapshot == lastCb'[1]
       IN  /\ snapshot.cls = "CallProgress"
           /\ snapshot.call_id = DictGet(d, "call_id", "")
           /\ snapshot.status = DictGet(d, "status", "")
           /\ snapshot.phase = (IF Has(d, "phase") THEN Some(d["phase"]) ELSE None)
           /\ snapshot.duration_seconds =
                 (IF Has(d, "duration_seconds") THEN Some(d["duration_seconds"]) ELSE None)
           /\ (snapshot.partial_transcript = None) = ~Has(d, "partial_transcript")
           /\ Has(d, "partial_transcript") =>
                 /\ Len(snapshot.partial_transcript[1]) = Len(d["partial_transcript"])
                 /\ \A i \in 1..Len(d["partial_transcript"]) :
                       /\ snapshot.partial_transcript[1][i].speaker =
                             DictGet(d["partial_transcript"][i], "speaker", "")
                       /\ snapshot.partial_transcript[1][i].text =
                             DictGet(d["partial_transcript"][i], "text", "")

\* The step handles an event (noted in arg): it goes on reading, or leaves
\* the connection because of the payload or the callback; and the event is
\* a status or transcript event.
ProgressEventHandled ==
    /\ pc = "sse_read"
    /\ \/ pc' = "sse_read"
       \/ /\ closing' # None
          /\ closing'[1].how \in {"payload", "callback", "callback_transport"}
    /\ arg' # None
    /\ ~arg'[1].buf_empty
    /\ Has(arg'[1].event, "event")
    /\ arg'[1].event["event"] \in {EventStatus, EventTranscript}

ProgressEventStep ==
    ProgressEventHandled =>
        LET event == arg'[1].event
        IN  IF Has(event, "data") /\ on_progress
            THEN LET loaded == JsonLoads(event["data"])
                 IN  (loaded.kind = "return" /\ loaded.value # None) =>
                        /\ nCb' = nCb + 1
                        /\ SnapshotFromPayload(loaded.value[1])
                        /\ cbRaisedAt' = "none" => KeepsReading
            ELSE /\ nCb' = nCb
                 /\ lastCb' = lastCb
                 /\ KeepsReading

\* C25: on the stream path a status or transcript event with a payload (a
\* JSON object), handled while a progress callback is supplied, invokes the
\* callback exactly once with the snapshot parsed from that payload, and
\* when the callback has returned the waiter keeps reading the same
\* connection: no return, no reconnect, no status fetch.  Without a
\* callback, or without a payload, the event is ignored and the waiter
\* keeps reading as well.
ProgressEventInvokesCallback == [][ProgressEventStep]_vars

\* C25: two progress events were handled on one connection, the second a
\* transcript event whose snapshot was given to the callback, and the waiter
\* is still reading that connection.
TwoProgressCallbacksOnConnection ==
    /\ fn = "sse_connect"
    /\ pc = "sse_read"
    /\ connOpen = 1
    /\ Len(opens) = 1
    /\ nCb = 2
    /\ arg # None
    /\ Has(arg[1].event, "event")
    /\ arg[1].event["event"] = EventTranscript
    /\ Has(arg[1].event, "data")
    /\ arg[1].event["data"] = <<JsonTranscript>>
    /\ lastCb # None
    /\ lastCb[1].phase = Some("connected")

\* C26: the blocking and the asynchronous wait, started with the same
\* arguments and given the same responses, stream events and failures, are
\* at the same place after every step, have issued the same requests (the
\* stream requests with the same Last-Event-Id values), have waited the same
\* intervals, have invoked the callback as often and with the same snapshot,
\* and have ended with the same result or error.
SyncAndAsyncAgree ==
    fn = "both" =>
        LET a == waits[1]
        IN  /\ a.pc = pc
            /\ a.outcome = outcome
            /\ a.attempt = attempt
            /\ a.last_event_id = last_event_id
            /\ a.conn_last_event_id = conn_last_event_id
            /\ a.opens = opens
            /\ a.nCreate = nCreate
            /\ a.nGet = nGet
            /\ a.nSleep = nSleep
            /\ a.lastSleep = lastSleep
            /\ a.nCb = nCb
            /\ a.lastCb = lastCb
            /\ a.connOpen = connOpen
            /\ (a.closing = None) = (closing = None)
            /\ a.stream_resp = stream_resp

\* C26: both waits have reconnected with a Last-Event-Id after the stream
\* ended, have gone on to polling, have reported progress from a status
\* fetch, and have ended with the error of a later fetch.
BothReconnectedPolledAndFailed ==
    /\ fn = "both"
    /\ pc = "done"
    /\ waits[1].pc = "done"
    /\ outcome.kind = "raise"
    /\ outcome.exc.type = "RateLimitError"
    /\ Len(opens) = 2
    /\ opens[2] # None
    /\ streamFailure = "ended"
    /\ nSleep = 2
    /\ lastSleep = 1
    /\ nPollCb = 1
    /\ waits[1].nCb = 1

\* A line with nothing on it but, possibly, its line ending.
IsBlankLine(line) == \A i \in 1..Len(line) : line[i] \in {"\r", "\n"}

\* The positions of the blank lines that end a run of non-blank lines.
RunEnds(lines) ==
    { e \in 2..Len(lines) : IsBlankLine(lines[e]) /\ ~IsBlankLine(lines[e - 1]) }

\* The maximal run of non-blank lines that the blank line at e ends.
RunBefore(lines, e) ==
    LET first == CHOOSE b \in 1..(e - 1) :
                    /\ \A j \in b..(e - 1) : ~IsBlankLine(lines[j])
                    /\ b = 1 \/ IsBlankLine(lines[b - 1])
    IN  SubSeq(lines, first, e - 1)

\* The values of the lines of run that begin with prefix, in their order.
FieldValues(run, prefix) ==
    LET with == SelectSeq(run, LAMBDA line : StartsWith(line, prefix))
    IN  [i \in 1..Len(with) |-> Strip(Drop(with[i], Len(prefix)))]

\* event is what the lines of run say: id and type from the last id: and
\* event: line, the payload from the data: lines joined by newlines, and
\* nothing from any other line.
EventIsOfRun(event, run) ==
    LET ids == FieldValues(run, PrefixId)
        types == FieldValues(run, PrefixEvent)
        datas == FieldValues(run, PrefixData)
    IN  /\ DOMAIN event \subseteq {"id", "event", "data"}
        /\ Has(event, "id") = (ids # <<>>)
        /\ Has(event, "id") => event["id"] = ids[Len(ids)]
        /\ Has(event, "event") = (types # <<>>)
        /\ Has(event, "event") => event["event"] = types[Len(types)]
        /\ Has(event, "data") = (datas # <<>>)
        /\ Has(event, "data") => event["data"] = Join(datas)

\* event is a result event with a payload, at which the line loop returns.
ResultWithPayload(event) ==
    Has(event, "event") /\ event["event"] = EventResult /\ Has(event, "data")

\* event is a status or transcript event with a payload, read while a
\* progress callback is supplied.
ProgressWithPayload(event) ==
    /\ on_progress
    /\ Has(event, "event")
    /\ event["event"] \in {EventStatus, EventTranscript}
    /\ Has(event, "data")

\* The lines the loop has read: all but the unread ones.
LinesRead == SubSeq(arg, 1, Len(arg) - Len(ret[1].unread))

\* C27 as stated: for every sequence of stream lines, each maximal run of
\* non-blank lines that a blank line ends yields exactly one event, in
\* order: its id and type are those of its last id: and event: line, its
\* payload is its data: lines joined by newlines in their order, it has no
\* payload when it has no data: line, and comment lines contribute nothing.
\* A blank line that follows a blank line, or begins the stream, yields no
\* event.
LinesYieldEvents ==
    (fn = "read_lines" /\ ret # None) =>
        LET events == ret[1].events
            ends == RunEnds(arg)
        IN  /\ Len(events) = Cardinality(ends)
            /\ \A k \in 1..Len(events) :
                  LET e == CHOOSE x \in ends : Cardinality({y \in ends : y <= x}) = k
                  IN  EventIsOfRun(events[k], RunBefore(arg, e))

\* C27: the same holds of the lines the loop reads, which are the lines up
\* to and including the blank line at which it is left, or all lines when
\* it is not left: each run of non-blank lines among them that a blank line
\* ends yields exactly one event, in order, composed as above.  The loop is
\* left at the first result event with a payload and, with a progress
\* callback, at the first status or transcript event with a payload whose
\* snapshot cannot be built or whose callback raises; so only the last
\* event can be one of these, every such event before it had its snapshot
\* given to the callback, and the lines after it are not read and yield
\* nothing.  Without a callback only a result event ends the reading.
LinesReadYieldEvents ==
    (fn = "read_lines" /\ ret # None) =>
        LET events == ret[1].events
            ends == RunEnds(LinesRead)
            last == events[Len(events)]
            reported == { k \in 1..Len(events) :
                            /\ ProgressWithPayload(events[k])
                            /\ _progress_from_sse_data(events[k]["data"]).kind = "return" }
        IN  /\ Len(events) = Cardinality(ends)
            /\ \A k \in 1..Len(events) :
                  LET e == CHOOSE x \in ends : Cardinality({y \in ends : y <= x}) = k
                  IN  /\ EventIsOfRun(events[k], RunBefore(LinesRead, e))
                      /\ ResultWithPayload(events[k]) => k = Len(events)
                      /\ (ProgressWithPayload(events[k]) /\ k < Len(events)) => k \in reported
            /\ ret[1].called = Cardinality(reported)
            /\ ret[1].unread # <<>> =>
                  /\ events # <<>>
                  /\ IsBlankLine(LinesRead[Len(LinesRead)])
                  /\ \/ ResultWithPayload(last)
                     \/ ProgressWithPayload(last) /\ ret[1].result.kind = "raise"
            /\ (events # <<>> /\ ResultWithPayload(last)) =>
                  /\ ret[1].buf = <<>>
                  /\ IsBlankLine(LinesRead[Len(LinesRead)])
            /\ (events # <<>> /\ ProgressWithPayload(last) /\ Len(events) \notin reported) =>
                  /\ ret[1].result.kind = "raise"
                  /\ ret[1].buf = <<>>
                  /\ IsBlankLine(LinesRead[Len(LinesRead)])
            /\ ret[1].result.kind = "raise" =>
                  /\ events # <<>>
                  /\ ResultWithPayload(last) \/ ProgressWithPayload(last)
                  /\ ret[1].buf = <<>>
                  /\ IsBlankLine(LinesRead[Len(LinesRead)])

\* C27: with a progress callback that raises, a status event whose payload
\* was split over two data lines was joined in order and given to the
\* callback; the loop was left at the blank line that ends the event, and
\* the line after it was not read.
ReadSplitPayloadAndStopped ==
    /\ fn = "read_lines"
    /\ on_progress
    /\ ret # None
    /\ arg = <<LineData(JsonCancelledHead), LineData(JsonCancelledTail),
              LineEventStatus, BlankLineCr, LineId2>>
    /\ ret[1].events = << [data |-> <<JsonCancelledHead, "\n", JsonCancelledTail>>,
                           event |-> EventStatus] >>
    /\ ret[1].called = 1
    /\ ret[1].result = Raise(CallbackError)
    /\ ret[1].unread = <<LineId2>>
    /\ ret[1].last_event_id = None

\* Every stream request sent so far: the first has no Last-Event-Id, and a
\* Last-Event-Id on a later one is a non-empty event id received before.
RequestsCarryReceivedIds ==
    \A n \in 1..Len(opens') :
        /\ n = 1 => opens'[n] = None
        /\ opens'[n] # None => opens'[n][1] # <<>> /\ opens'[n][1] \in ret'

\* A step in which an event is handled and the connection is read on: the
\* cursor of the connection becomes the id of the event when it has a
\* non-empty one and is left alone otherwise, and the cursor kept between
\* connections is left alone.
EventMovesCursor ==
    (pc = "sse_read" /\ pc' = "sse_read") =>
        LET event == arg'[1].event
        IN  /\ last_event_id' = last_event_id
            /\ IF Has(event, "id") /\ event["id"] # <<>>
               THEN conn_last_event_id' = Some(event["id"])
               ELSE conn_last_event_id' = conn_last_event_id

\* C28: the first stream connection of a wait never carries a
\* Last-Event-Id header, a reconnect carries one only with a non-empty
\* event id received earlier in the same wait, and an event with no id or
\* an empty id leaves the cursor unchanged.
LastEventIdIsReceivedId == [][RequestsCarryReceivedIds /\ EventMovesCursor]_vars

\* C28: an event with an id and then an event with an empty id were
\* received on the first connection, the stream ended, and the reconnect
\* carried the id of the first event.
ReconnectedWithEarlierId ==
    /\ fn = "sse_connect"
    /\ Len(opens) = 2
    /\ opens[1] = None
    /\ opens[2] = Some(<<"1">>)
    /\ firstConn # None
    /\ firstConn[1].how = "ended"
    /\ ret = {<<"1">>, <<>>}
    /\ arg # None
    /\ Has(arg[1].event, "id")
    /\ arg[1].event["id"] = <<>>

\* The step in which the connection closes, with buf holding whatever lines
\* were not followed by a blank line: the line loop has ended without
\* result, the wait is not completed, no callback is invoked, and the
\* cursor is the one of the events handled before.
CloseDiscardsPendingLines ==
    (fn = "sse_connect_lines" /\ pc = "sse_read" /\ arg = <<>>) =>
        /\ pc' = "sse_close"
        /\ closing' # None
        /\ closing'[1].how = "ended"
        /\ outcome' = Pending
        /\ conn_last_event_id' = conn_last_event_id
        /\ last_event_id' = last_event_id
        /\ nCb' = nCb
        /\ lastCb' = lastCb
        /\ streamTerminalResult' = streamTerminalResult

\* The step that follows it, in which the response has been closed: the
\* attempt has ended without result (the one reconnect follows), the wait
\* is not completed, no callback is invoked, and the cursor kept is the one
\* of the events handled before.
EndedAttemptReconnects ==
    (fn = "sse_connect_lines" /\ pc = "sse_close" /\ arg = <<>> /\ closing[1].how = "ended") =>
        /\ streamFailure' = "ended"
        /\ pc' = "sse_connect"
        /\ attempt' = attempt + 1
        /\ outcome' = Pending
        /\ connOpen' = 0
        /\ last_event_id' = conn_last_event_id
        /\ nCb' = nCb
        /\ lastCb' = lastCb
        /\ streamTerminalResult' = streamTerminalResult

\* C29: an event whose lines are not followed by a blank line before the
\* connection closes is discarded: it completes nothing, invokes nothing
\* and does not move the cursor, even when it is a result event, and the
\* connection counts as ended without a result.
TruncatedEventIsDiscarded == [][CloseDiscardsPendingLines /\ EndedAttemptReconnects]_vars

\* C29: the connection closed on a result event with an id and a terminal
\* payload that no blank line followed: the wait is pending, about to
\* reconnect, and has no cursor.
ClosedOnTruncatedResult ==
    /\ fn = "sse_connect_lines"
    /\ arg = <<>>
    /\ ret = <<RStripLineEnd(LineId2), LineEventResult, LineData(JsonCompleted)>>
    /\ streamFailure = "ended"
    /\ pc = "sse_connect"
    /\ attempt = 1
    /\ outcome = Pending
    /\ last_event_id = None
    /\ ~streamTerminalResult

====
